---- MODULE Spec2Model ----
(***************************************************************************)
(* Model of logdrop: the dispatcher loop of main.rs (run), the streaming   *)
(* JSON parser and builder of logdrop/json.rs, and the template engine     *)
(* and file sink of logdrop/output/files.rs, and the batch sink of          *)
(* logdrop/output/elasticsearch.rs.                                        *)
(*                                                                         *)
(* Each component has its own specification over its own variables; the    *)
(* variables of the other components stay at their idle values.            *)
(*   Spec, FairSpec : the dispatcher, its ingestion channel, the output    *)
(*                    channels and the output worker threads.              *)
(*   SpecParser     : one Parser over one input, pulled event by event.    *)
(*   SpecBuilder    : one Builder over one stream of documents, pulled     *)
(*                    value by value.                                      *)
(*   SpecBuilderAny : one Builder over one input of the parser.            *)
(*   SpecFormat, FairSpecFormat : one FormatParser over one template,      *)
(*                    pulled token by token.                               *)
(*   SpecConsume    : consume on one token and one record.                 *)
(*   SpecFile       : one FileOutput fed record by record on a small       *)
(*                    filesystem.                                          *)
(*   SpecBatch, FairSpecBatch : one ElasticsearchOutput: its feed, its     *)
(*                    timer thread, its worker and its request tasks.      *)
(* Characters are strings of length one, a text is a sequence of           *)
(* characters.  A number (f64) is the exact decimal <<m, e>> = m * 10^e    *)
(* with m not divisible by 10 (<<0, 0>> for zero): the rounding of f64     *)
(* arithmetic and the width of the u64 accumulator are outside the model,  *)
(* the inputs are short enough for neither to matter.                      *)
(***************************************************************************)
EXTENDS Integers, Sequences, FiniteSets, TLC

VARIABLES
    \* ---- dispatcher (main.rs, run) ----
    ingest,     \* the ingestion channel (tx, rx) of run: payloads in flight
    nin,        \* number of payloads the inputs have sent so far
    dpc,        \* dispatcher position: "recv", "send" or "failed" (task failure)
    di,         \* index into channels of the send the for loop is at
    cur,        \* the local `payload` of the loop body
    nclone,     \* number of payload.clone() calls made (identity of each copy)
    chans,      \* per output: the contents of its channel
    wstate,     \* per output worker: "run", "blocked" (inside feed) or "dead"
    fed,        \* history: per output, the copies passed to feed(), in order
    pushed,     \* history: per output, the copies sent on its channel, in order
    accepted,   \* history: payloads that passed the required-field check
    dropped,    \* history: payloads the dispatcher dropped
    \* ---- parser (logdrop/json.rs, Parser) ----
    input,      \* the characters the Parser was constructed over
    parser,     \* the Parser: reader, ch, handled, state, stack
    ev,         \* the event the last pull returned
    prevErr,    \* history: an Error event was returned before the last pull
    pevs,       \* history: the types of the events pulled that are no Error
    \* ---- builder (logdrop/json.rs, Builder) ----
    bdocs,      \* the documents of the stream: their texts and values
    bsep,       \* the text written after every document but the last
    builder,    \* the Builder: parser, arrays
    bres,       \* what the last pull returned: "Some", "None" or "Panic"
    outs,       \* history: the values pulled so far
    \* ---- template tokenizer (logdrop/output/files.rs, FormatParser) ----
    tmpl,       \* the template the FormatParser was constructed over
    fparser,    \* the FormatParser: reader, state
    fev,        \* what the last pull returned
    ftoks,      \* history: the Literal and Placeholder tokens pulled so far
    fprevErr,   \* history: an Error token was returned before the last pull
    \* ---- template resolution (logdrop/output/files.rs, consume) ----
    cevent,     \* the token given to consume
    cpayload,   \* the record given to consume
    cres,       \* what consume returned
    \* ---- file sink (logdrop/output/files.rs, FileOutput) ----
    disk,       \* the filesystem: the object every path names, every object's lines
    fileout,    \* the FileOutput: path, message, files
    fstatus,    \* the thread of the sink: "run" or "panicked"
    opens,      \* history: the object every handle was opened on, in order
    fhist,      \* history: what every feed did
    \* ---- batch sink (logdrop/output/elasticsearch.rs, ElasticsearchOutput) ----
    erx,        \* the channel (tx, rx) of the worker: events in flight
    etx,        \* history: every event sent on tx, in order
    timer_rx,   \* the channel (timer_tx, timer_rx): number of resets in flight
    etimer,     \* the oneshot the timer thread waits for
    queue,      \* the local `queue` of the worker
    wpc,        \* worker position: "recv", or "wait" (waiting for a request)
    requests,   \* the request tasks spawned by send, with their state
    flushes,    \* history: every call of send by the worker
    urlok       \* whether the url of host:port parses

dvars == <<ingest, nin, dpc, di, cur, nclone, chans, wstate, fed, pushed,
           accepted, dropped>>

pvars == <<input, parser, ev, prevErr, pevs>>

bvars == <<bdocs, bsep, builder, bres, outs>>

fvars == <<tmpl, fparser, fev, ftoks, fprevErr>>

cvars == <<cevent, cpayload, cres>>

\* The variables of the template engine and of the file sink.
ovars == <<disk, fileout, fstatus, opens, fhist>>

evars == <<erx, etx, timer_rx, etimer, queue, wpc, requests, flushes, urlok>>

tvars == <<fvars, cvars, ovars, evars>>

vars == <<ingest, nin, dpc, di, cur, nclone, chans, wstate, fed, pushed,
          accepted, dropped, input, parser, ev, prevErr, pevs,
          bdocs, bsep, builder, bres, outs,
          tmpl, fparser, fev, ftoks, fprevErr, cevent, cpayload, cres,
          disk, fileout, fstatus, opens, fhist,
          erx, etx, timer_rx, etimer, queue, wpc, requests, flushes, urlok>>

-----------------------------------------------------------------------------
(* Bounds *)

\* Number of payloads the inputs send in one run.
MaxRecords == 3

\* Number of pieces (CoreTokens) an input of the parser is made of.
MaxTokens == 3

\* Number of elements of an array, of members of an object, in a document.
MaxElems == 2

\* Number of documents in one stream.
MaxDocs == 3

\* The longest template given to the tokenizer, in characters.
MaxTemplate == 6

\* The longest field path of a placeholder given to consume.
MaxPath == 3

\* Records fed to one file sink.
MaxFeeds == 3

\* Records fed to one batch sink, and expiries of its timer.
MaxChunks == 5

MaxTimeouts == 3

\* The threshold of the batch sink (let limit = 100), scaled down.
limit == 3

-----------------------------------------------------------------------------
(* Payload = Json (logdrop/mod.rs:33).  Only objects with string members   *)
(* and one non-object value are needed for the dispatcher.                 *)

EmptyMap == [k \in {} |-> ""]

JObject(m) == [tag |-> "Object", map |-> m, str |-> ""]

JString(s) == [tag |-> "String", map |-> EmptyMap, str |-> s]

\* The payloads an input may send: objects with every combination of the
\* members message / timestamp, and a value that is not an object.
Payloads ==
    { JObject(EmptyMap),
      JObject([k \in {"message"} |-> "m"]),
      JObject([k \in {"timestamp"} |-> "old"]),
      JObject([k \in {"message", "timestamp"} |-> IF k = "message" THEN "m" ELSE "old"]),
      JString("message") }

\* The wall-clock strings time::strftime can give.
Times == {"t1", "t2"}

\* The configured outputs, in the order of the `outputs` vector.
channels == <<"file", "es">>

Outputs == {channels[i] : i \in 1..Len(channels)}

\* A find that finds every key in a value that is not an object.
find_in_any_value(p, key) ==
    IF p.tag = "Object" /\ key \notin DOMAIN p.map THEN <<>> ELSE <<p.str>>

\* Json::find: the member of an object; None (the empty sequence) for a
\* missing member and for every value that is not an object.
find(p, key) ==
    IF p.tag = "Object" /\ key \in DOMAIN p.map THEN <<p.map[key]>> ELSE <<>>

\* contains with the key not looked at.
contains_any_key(p, key) == p.tag = "Object"

\* Processor::contains
contains(p, key) == find(p, key) # <<>>

\* object.insert("timestamp".to_string(), String(timestamp))
insert(p, key, val) ==
    JObject([k \in DOMAIN p.map \cup {key} |-> IF k = key THEN val ELSE p.map[k]])

\* A copy that shares its identity with every other copy.
clone_shared(p, id) == [id |-> 0, val |-> p]

\* payload.clone(): a new value with its own identity, equal in content.
clone(p, id) == [id |-> id, val |-> p]

\* A channel of capacity one: a send waits while a copy is queued.
SendReadyBounded(q) == Len(q) < 1

\* channel(): asynchronous and unbounded, a send never waits for the receiver.
SendReady(q) == TRUE

\* A send that queues the copy in front.
ChanSendFront(q, c) == <<c>> \o q

\* tx.send(c): the copy is queued behind everything sent before it.
ChanSend(q, c) == Append(q, c)

Contents(s) == [i \in 1..Len(s) |-> s[i].val]

-----------------------------------------------------------------------------
(* Dispatcher actions *)

DInit ==
    /\ ingest = <<>>
    /\ nin = 0
    /\ dpc = "recv"
    /\ di = 0
    /\ cur = JObject(EmptyMap)
    /\ nclone = 0
    /\ chans = [o \in Outputs |-> <<>>]
    /\ wstate = [o \in Outputs |-> "run"]
    /\ fed = [o \in Outputs |-> <<>>]
    /\ pushed = [o \in Outputs |-> <<>>]
    /\ accepted = <<>>
    /\ dropped = <<>>

\* An input thread: tx.send(record) on the ingestion channel.
Ingest ==
    /\ nin < MaxRecords
    /\ dpc # "failed"
    /\ \E p \in Payloads : ingest' = Append(ingest, p)
    /\ nin' = nin + 1
    /\ UNCHANGED <<dpc, di, cur, nclone, chans, wstate, fed, pushed, accepted, dropped, pvars, bvars, tvars>>

\* The loop body of run up to the for loop: recv, the required-field check,
\* the timestamp insertion.
DispatchRecv ==
    /\ dpc = "recv"
    /\ ingest # <<>>
    /\ ingest' = Tail(ingest)
    /\ LET payload == Head(ingest) IN
         IF ~contains(payload, "message")
         THEN /\ dropped' = Append(dropped, payload)
              /\ UNCHANGED <<dpc, di, cur, accepted>>
         ELSE IF payload.tag # "Object"
         THEN \* unreachable!()
              /\ dpc' = "failed"
              /\ UNCHANGED <<di, cur, accepted, dropped>>
         ELSE \E now \in Times :
              /\ cur' = insert(payload, "timestamp", now)
              /\ accepted' = Append(accepted, cur')
              /\ dpc' = "send"
              /\ di' = 1
              /\ UNCHANGED dropped
    /\ UNCHANGED <<nin, nclone, chans, wstate, fed, pushed, pvars, bvars, tvars>>

\* One iteration of `for tx in channels.iter() { tx.send(payload.clone()); }`.
\* A send on a channel whose receiver is gone fails the dispatcher task.
DispatchSend ==
    /\ dpc = "send"
    /\ LET o == channels[di] IN
         IF wstate[o] = "dead"
         THEN /\ dpc' = "failed"
              /\ UNCHANGED <<di, nclone, chans, pushed>>
         ELSE /\ SendReady(chans[o])
              /\ LET c == clone(cur, nclone + 1) IN
                   /\ chans' = [chans EXCEPT ![o] = ChanSend(@, c)]
                   /\ pushed' = [pushed EXCEPT ![o] = Append(@, c)]
              /\ nclone' = nclone + 1
              /\ IF di = Len(channels)
                 THEN dpc' = "recv" /\ di' = 0
                 ELSE dpc' = "send" /\ di' = di + 1
    /\ UNCHANGED <<ingest, nin, cur, wstate, fed, accepted, dropped, pvars, bvars, tvars>>

\* The worker of output o: output.feed(&rx.recv()).  feed returns, never
\* returns, or panics (the thread ends and the receiver is dropped).
WorkerFeed(o) ==
    /\ wstate[o] = "run"
    /\ chans[o] # <<>>
    /\ fed' = [fed EXCEPT ![o] = Append(@, Head(chans[o]))]
    /\ \E outcome \in {"ok", "block", "panic"} :
         CASE outcome = "ok" ->
                /\ chans' = [chans EXCEPT ![o] = Tail(@)]
                /\ UNCHANGED wstate
           [] outcome = "block" ->
                /\ chans' = [chans EXCEPT ![o] = Tail(@)]
                /\ wstate' = [wstate EXCEPT ![o] = "blocked"]
           [] outcome = "panic" ->
                /\ chans' = [chans EXCEPT ![o] = <<>>]
                /\ wstate' = [wstate EXCEPT ![o] = "dead"]
    /\ UNCHANGED <<ingest, nin, dpc, di, cur, nclone, pushed, accepted, dropped, pvars, bvars, tvars>>

\* rx.recv() in a worker fails once the dispatcher is gone and the channel
\* is drained: every Sender was dropped with the dispatcher's task.
WorkerRecvFail(o) ==
    /\ wstate[o] = "run"
    /\ chans[o] = <<>>
    /\ dpc = "failed"
    /\ wstate' = [wstate EXCEPT ![o] = "dead"]
    /\ UNCHANGED <<ingest, nin, dpc, di, cur, nclone, chans, fed, pushed, accepted, dropped, pvars, bvars, tvars>>


-----------------------------------------------------------------------------
(* The streaming parser: logdrop/json.rs, Parser *)

\* What char() returns at the end of the input: '\x00'.
NUL == "NUL"

Digit == {"0", "1", "2", "3", "4", "5", "6", "7", "8", "9"}

DigitSeq == <<"0", "1", "2", "3", "4", "5", "6", "7", "8", "9">>

\* (c as isize) - ('0' as isize)
DigitVal(c) == (CHOOSE i \in 1..10 : DigitSeq[i] = c) - 1

HexSeq == <<"a", "b", "c", "d", "e", "f">>

HexUpperSeq == <<"A", "B", "C", "D", "E", "F">>

\* The match of decode_hex_escape: the value of a hexadecimal digit.
HexDigit == Digit \cup {HexSeq[i] : i \in 1..6} \cup {HexUpperSeq[i] : i \in 1..6}

HexVal(c) ==
    IF c \in Digit THEN DigitVal(c)
    ELSE 9 + (CHOOSE i \in 1..6 : HexSeq[i] = c \/ HexUpperSeq[i] = c)

\* The characters U+0020 ... U+007E, in order.  A string of the module
\* cannot hold the grave accent, which is written by its code point.
Ascii ==
    << " ", "!", "\"", "#", "$", "%", "&", "'", "(", ")", "*", "+",
       ",", "-", ".", "/", "0", "1", "2", "3", "4", "5", "6", "7",
       "8", "9", ":", ";", "<", "=", ">", "?", "@", "A", "B", "C",
       "D", "E", "F", "G", "H", "I", "J", "K", "L", "M", "N", "O",
       "P", "Q", "R", "S", "T", "U", "V", "W", "X", "Y", "Z", "[",
       "\\", "]", "^", "_", "U+96", "a", "b", "c", "d", "e", "f", "g",
       "h", "i", "j", "k", "l", "m", "n", "o", "p", "q", "r", "s",
       "t", "u", "v", "w", "x", "y", "z", "{", "|", "}", "~" >>

\* char::from_u32(n) for a scalar value n: the character itself for the
\* characters of the inputs (ASCII, the control characters as the escapes
\* write them, '\x00' as char() writes it), every other scalar by its code
\* point.
CharOf(n) ==
    CASE n \in 32..126 -> Ascii[n - 31]
      [] n = 0 -> NUL
      [] n = 8 -> "<BS>"
      [] n = 9 -> "\t"
      [] n = 10 -> "\n"
      [] n = 12 -> "\f"
      [] n = 13 -> "\r"
      [] OTHER -> "U+" \o ToString(n)

\* The escapes of parse_string_impl: the character after the backslash and
\* the character pushed for it ("<BS>" stands for '\x08').
Escapes == {"\"", "\\", "/", "b", "f", "n", "r", "t"}

Unescape(c) ==
    CASE c = "b" -> "<BS>"
      [] c = "f" -> "\f"
      [] c = "n" -> "\n"
      [] c = "r" -> "\r"
      [] c = "t" -> "\t"
      [] OTHER   -> c

\* f64 values: m * 10^e, in canonical form.
RECURSIVE Norm(_, _)
Norm(m, e) ==
    IF m = 0 THEN <<0, 0>>
    ELSE IF m % 10 = 0 THEN Norm(m \div 10, e + 1)
    ELSE <<m, e>>

RECURSIVE Pow10(_)
Pow10(n) == IF n = 0 THEN 1 ELSE 10 * Pow10(n - 1)

\* -x
F64Neg(x) == <<0 - x[1], x[2]>>

\* Events (JsonEvent).
\* Every event has every field, so that any two events compare.
Event(type) ==
    [type |-> type, b |-> FALSE, num |-> <<0, 0>>, str |-> <<>>, err |-> <<>>]

NullValue == Event("NullValue")

BooleanValue(b) == [Event("BooleanValue") EXCEPT !.b = b]

NumberValue(x) == [Event("NumberValue") EXCEPT !.num = x]

StringValue(s) == [Event("StringValue") EXCEPT !.str = s]

ArrayBegin == Event("ArrayBegin")

ArrayEnd == Event("ArrayEnd")

ObjectBegin == Event("ObjectBegin")

ObjectEnd == Event("ObjectEnd")

SyntaxError(error) == <<"SyntaxError", error>>

BrokenParser == <<"BrokenParser">>

Error(err) == [Event("Error") EXCEPT !.err = err]

\* What a pull gives besides Some(event): None, or a panic.
NoneEvent == Event("None")

PanicEvent == Event("Panic")

\* Before the first pull.
NoEvent == Event("Start")

Ret(e, p) == [ev |-> e, p |-> p]

\* Parser::new.  tok, stext and skey are ghost fields.  tok: the text (ch
\* followed by the rest of the reader) at which the last pull entered
\* parse_number, <<>> if it did not.  stext: the text after the opening quote
\* at which the last pull entered parse_string, <<NUL>> if it did not.  skey:
\* the last pull entered parse_string from parse_object, for a key.
Parser_new(reader) ==
    [reader |-> reader, ch |-> <<NUL>>, handled |-> TRUE,
     state |-> "Undefined", stack |-> <<>>, tok |-> <<>>,
     stext |-> <<NUL>>, skey |-> FALSE]

bump(p) ==
    IF p.reader = <<>>
    THEN [p EXCEPT !.ch = <<>>]
    ELSE [p EXCEPT !.ch = <<Head(p.reader)>>, !.reader = Tail(p.reader)]

eof(p) == p.ch = <<>>

char(p) == IF p.ch = <<>> THEN NUL ELSE p.ch[1]

RECURSIVE whitespaces(_)
whitespaces(p) ==
    IF char(p) \in {" ", "\n", "\t", "\r"} THEN whitespaces(bump(p)) ELSE p

\* syntax_error with the state left as it was.
syntax_error_keep_state(p, error) == Ret(Error(SyntaxError(error)), p)

syntax_error(p, error) ==
    Ret(Error(SyntaxError(error)), [p EXCEPT !.state = "Broken"])

\* ident.chars().all(|c| Some(c) == self.next_char()): stops at the first
\* character that differs.
RECURSIVE all_next_char(_, _)
all_next_char(p, ident) ==
    IF ident = <<>> THEN [ok |-> TRUE, p |-> p]
    ELSE LET q == bump(p) IN
         IF char(q) = Head(ident)
         THEN all_next_char(q, Tail(ident))
         ELSE [ok |-> FALSE, p |-> q]

complete(p, ident, value) ==
    LET m == all_next_char(p, ident) IN
    IF m.ok
    THEN Ret(value, [m.p EXCEPT !.handled = TRUE])
    ELSE syntax_error(m.p, "ExpectedValue")

\* while !self.eof() { match self.char() { c @ '0'...'9' => ..., _ => break }
\* self.bump(); }: the digits read as a number, and how many there were.
RECURSIVE digits(_, _, _)
digits(p, acc, n) ==
    IF ~eof(p) /\ char(p) \in Digit
    THEN digits(bump(p), acc * 10 + DigitVal(char(p)), n + 1)
    ELSE [p |-> p, acc |-> acc, n |-> n]

\* parse_number_impl, the sign.
ParseSign(p) ==
    IF char(p) = "-"
    THEN [negative |-> TRUE, p |-> bump(p)]
    ELSE [negative |-> FALSE, p |-> p]

\* The integer part with a leading 0 read like any other digit.
ParseIntegerAnyDigits(p) ==
    IF char(p) \in Digit
    THEN LET d == digits(p, 0, 0) IN
         [ok |-> TRUE, p |-> d.p, integer |-> d.acc]
    ELSE [ok |-> FALSE, p |-> p, integer |-> 0]

\* parse_number_impl, "Parse integer values until EOF or non-integer value
\* found".
ParseInteger(p) ==
    IF char(p) = "0"
    THEN LET q == bump(p) IN
         IF char(q) \in Digit
         THEN [ok |-> FALSE, p |-> q, integer |-> 0]
         ELSE [ok |-> TRUE, p |-> q, integer |-> 0]
    ELSE IF char(p) \in Digit
    THEN LET d == digits(p, 0, 0) IN
         [ok |-> TRUE, p |-> d.p, integer |-> d.acc]
    ELSE [ok |-> FALSE, p |-> p, integer |-> 0]

\* parse_number_impl, "Parse decimal": decimal = frac / 10^scale.
ParseDecimal(p) ==
    IF char(p) = "."
    THEN LET q == bump(p) IN
         IF char(q) \in Digit
         THEN LET d == digits(q, 0, 0) IN
              [ok |-> TRUE, p |-> d.p, frac |-> d.acc, scale |-> d.n]
         ELSE [ok |-> FALSE, p |-> q, frac |-> 0, scale |-> 0]
    ELSE [ok |-> TRUE, p |-> p, frac |-> 0, scale |-> 0]

\* The exponent with no digit required: it defaults to zero.
ParseExponentDefault(p) ==
    IF char(p) \in {"e", "E"}
    THEN LET q == bump(p)
             s == IF char(q) = "+" THEN bump(q)
                  ELSE IF char(q) = "-" THEN bump(q)
                  ELSE q
             d == digits(s, 0, 0)
         IN  [ok |-> TRUE, p |-> d.p, exponent |-> d.acc]
    ELSE [ok |-> TRUE, p |-> p, exponent |-> 0]

\* parse_number_impl, "Parse exponent".  The sign of the exponent is read
\* and not kept.
ParseExponent(p) ==
    IF char(p) \in {"e", "E"}
    THEN LET q == bump(p)
             s == IF char(q) = "+" THEN bump(q)
                  ELSE IF char(q) = "-" THEN bump(q)
                  ELSE q
         IN  IF char(s) \in Digit
             THEN LET d == digits(s, 0, 0) IN
                  [ok |-> TRUE, p |-> d.p, exponent |-> d.acc]
             ELSE [ok |-> FALSE, p |-> s, exponent |-> 0]
    ELSE [ok |-> TRUE, p |-> p, exponent |-> 0]

\* Result<f64, ParserError>, Result<String, ParserError>, with the parser
\* after the call.
OkNum(x, p) == [ok |-> TRUE, num |-> x, err |-> <<>>, p |-> p]

OkStr(s, p) == [ok |-> TRUE, str |-> s, err |-> <<>>, p |-> p]

Err(err, p) == [ok |-> FALSE, num |-> <<0, 0>>, str |-> <<>>, err |-> err, p |-> p]

\* parse_number_impl without the test for the end of the input.
parse_number_impl_any_end(p0) ==
    LET Finish(negative, result, q) ==
            OkNum(IF negative THEN F64Neg(result) ELSE result, q)
        AfterExponent(s, i, d, x) ==
            IF ~x.ok THEN Err(SyntaxError("ToDo"), x.p)
            ELSE Finish(s.negative,
                        Norm(i.integer * Pow10(d.scale) + d.frac,
                             x.exponent - d.scale),
                        [x.p EXCEPT !.handled = FALSE])
        AfterDecimal(s, i, d) ==
            IF ~d.ok THEN Err(SyntaxError("ToDo"), d.p)
            ELSE AfterExponent(s, i, d, ParseExponent(d.p))
        AfterInt(s, i) ==
            IF ~i.ok THEN Err(SyntaxError("ToDo"), i.p)
            ELSE AfterDecimal(s, i, ParseDecimal(i.p))
        AfterSign(s) == AfterInt(s, ParseInteger(s.p))
    IN  AfterSign(ParseSign([p0 EXCEPT !.tok = p0.ch \o p0.reader]))

parse_number_impl(p0) ==
    LET Finish(negative, result, q) ==
            IF eof(q) /\ q.state = "ParseArrayMaybe"
            THEN Err(SyntaxError("EOFWhileParsingArray"), q)
            ELSE IF eof(q) /\ q.state = "ParseObjectMaybe"
            THEN Err(SyntaxError("EOFWhileParsingObjectValue"), q)
            ELSE OkNum(IF negative THEN F64Neg(result) ELSE result, q)
        \* mantissa * 10f64.powi(exponent)
        AfterExponent(s, i, d, x) ==
            IF ~x.ok THEN Err(SyntaxError("ToDo"), x.p)
            ELSE Finish(s.negative,
                        Norm(i.integer * Pow10(d.scale) + d.frac,
                             x.exponent - d.scale),
                        [x.p EXCEPT !.handled = FALSE])
        AfterDecimal(s, i, d) ==
            IF ~d.ok THEN Err(SyntaxError("ToDo"), d.p)
            ELSE AfterExponent(s, i, d, ParseExponent(d.p))
        AfterInt(s, i) ==
            IF ~i.ok THEN Err(SyntaxError("ToDo"), i.p)
            ELSE AfterDecimal(s, i, ParseDecimal(i.p))
        AfterSign(s) == AfterInt(s, ParseInteger(s.p))
    IN  AfterSign(ParseSign([p0 EXCEPT !.tok = p0.ch \o p0.reader]))

parse_number(p) ==
    LET Done(r) ==
            IF r.ok
            THEN Ret(NumberValue(r.num), r.p)
            ELSE Ret(Error(r.err), [r.p EXCEPT !.state = "Broken"])
    IN  Done(parse_number_impl(p))

RECURSIVE hex_loop(_, _, _)
hex_loop(p, i, n) ==
    IF i < 4 /\ ~eof(p)
    THEN LET q == bump(p) IN
         IF char(q) \in HexDigit
         THEN hex_loop(q, i + 1, n * 16 + HexVal(char(q)))
         ELSE [ok |-> FALSE, n |-> 0, p |-> q]
    ELSE IF i # 4
    THEN [ok |-> FALSE, n |-> 0, p |-> p]
    ELSE [ok |-> TRUE, n |-> n, p |-> p]

decode_hex_escape(p) == hex_loop(p, 0, 0)

\* The loop of parse_string_impl.
RECURSIVE string_loop(_, _, _)
string_loop(p, result, escape) ==
    IF eof(p)
    THEN IF p.state = "ParseObjectPair"
         THEN Err(SyntaxError("EOFWhileParsingObjectKey"), p)
         ELSE Err(SyntaxError("EOFWhileParsingString"), p)
    ELSE IF escape
    THEN IF char(p) \in Escapes
         THEN string_loop(bump(p), Append(result, Unescape(char(p))), FALSE)
         ELSE IF char(p) = "u"
         THEN LET h == decode_hex_escape(p) IN
              IF ~h.ok THEN Err(SyntaxError("InvalidEscape"), h.p)
              ELSE IF h.n \in 56320..57343   \* 0xDC00 ... 0xDFFF
              THEN Err(SyntaxError("LoneLeadingSurrogateInHexEscape"), h.p)
              ELSE IF h.n \in 55296..56319   \* char::from_u32 is None
              THEN Err(SyntaxError("InvalidUnicodeCodePoint"), h.p)
              ELSE string_loop(bump(h.p), Append(result, CharOf(h.n)), FALSE)
         ELSE Err(SyntaxError("InvalidEscape"), p)
    ELSE IF char(p) = "\\"
    THEN string_loop(bump(p), result, TRUE)
    ELSE IF char(p) = "\""
    THEN OkStr(result, [p EXCEPT !.handled = TRUE])
    ELSE string_loop(bump(p), Append(result, char(p)), FALSE)

parse_string_impl(p) ==
    string_loop([p EXCEPT !.stext = p.ch \o p.reader], <<>>, FALSE)

parse_string(p) ==
    LET Done(r) ==
            IF r.ok
            THEN Ret(StringValue(r.str), r.p)
            ELSE Ret(Error(r.err), [r.p EXCEPT !.state = "Broken"])
    IN  Done(parse_string_impl(p))

\* self.stack.push(self.state); self.state = state; self.handled = true
PushState(p, state) ==
    [p EXCEPT !.stack = Append(@, p.state), !.state = state, !.handled = TRUE]

\* PopState with the entry left on the stack.
PopState_keep_entry(p) ==
    [p EXCEPT !.state = p.stack[Len(p.stack)], !.handled = TRUE]

\* self.state = self.stack.pop().unwrap(); self.handled = true
PopState(p) ==
    [p EXCEPT !.state = p.stack[Len(p.stack)],
              !.stack = SubSeq(p.stack, 1, Len(p.stack) - 1),
              !.handled = TRUE]

parse_value(p) ==
    CASE char(p) = "n" -> complete(p, <<"u", "l", "l">>, NullValue)
      [] char(p) = "t" -> complete(p, <<"r", "u", "e">>, BooleanValue(TRUE))
      [] char(p) = "f" -> complete(p, <<"a", "l", "s", "e">>, BooleanValue(FALSE))
      [] char(p) = "-" \/ char(p) \in Digit -> parse_number(p)
      [] char(p) = "\"" -> parse_string(bump(p))
      [] char(p) = "[" -> Ret(ArrayBegin, PushState(p, "ParseArray"))
      [] char(p) = "{" -> Ret(ObjectBegin, PushState(p, "ParseObject"))
      [] OTHER -> syntax_error(p, "ExpectedValue")

\* parse_array that ends the iteration at the end of the input.
RECURSIVE parse_array_eof_none(_, _)
parse_array_eof_none(p0, first) ==
    LET p == whitespaces(p0) IN
    IF eof(p) THEN Ret(NoneEvent, p)
    ELSE IF char(p) = "]"
    THEN IF p.stack = <<>> THEN Ret(PanicEvent, p) ELSE Ret(ArrayEnd, PopState(p))
    ELSE IF char(p) = ","
    THEN IF first
         THEN syntax_error(bump(p), "ExpectedValueOrArrayEnd")
         ELSE parse_array_eof_none(bump(p), FALSE)
    ELSE parse_value([p EXCEPT !.state = "ParseArrayMaybe"])

RECURSIVE parse_array(_, _)
parse_array(p0, first) ==
    LET p == whitespaces(p0) IN
    IF eof(p) THEN syntax_error(p, "EOFWhileParsingArray")
    ELSE IF char(p) = "]"
    THEN IF p.stack = <<>> THEN Ret(PanicEvent, p) ELSE Ret(ArrayEnd, PopState(p))
    ELSE IF char(p) = ","
    THEN IF first
         THEN syntax_error(bump(p), "ExpectedValueOrArrayEnd")
         ELSE parse_array(bump(p), FALSE)
    ELSE parse_value([p EXCEPT !.state = "ParseArrayMaybe"])

RECURSIVE parse_object(_, _)
parse_object(p0, first) ==
    LET p == whitespaces(p0) IN
    IF eof(p) THEN syntax_error(p, "EOFWhileParsingObject")
    ELSE IF char(p) = "}"
    THEN IF p.stack = <<>> THEN Ret(PanicEvent, p) ELSE Ret(ObjectEnd, PopState(p))
    ELSE IF char(p) = "\""
    THEN parse_string(bump([p EXCEPT !.state = "ParseObjectPair",
                                     !.skey = TRUE]))
    ELSE IF char(p) = ","
    THEN IF first
         THEN syntax_error(bump(p), "ExpectedKeyOrObjectEnd")
         ELSE parse_object(bump(p), FALSE)
    ELSE syntax_error(p, "ExpectedKeyOrObjectEnd")

parse_object_value(p0) ==
    LET p == whitespaces(p0) IN
    IF eof(p) THEN syntax_error(p, "EOFWhileParsingObjectColon")
    ELSE IF char(p) # ":" THEN syntax_error(p, "ExpectedColon")
    ELSE LET q == whitespaces(bump(p)) IN
         IF eof(q) THEN syntax_error(q, "EOFWhileParsingObjectValue")
         ELSE parse_value([q EXCEPT !.state = "ParseObjectMaybe"])

parse(p) ==
    CASE p.state = "Undefined" ->
            IF eof(p) THEN Ret(NoneEvent, p) ELSE parse_value(p)
      [] p.state = "Broken" -> Ret(Error(BrokenParser), p)
      [] p.state \in {"ParseArray", "ParseArrayMaybe"} ->
            parse_array(p, p.state = "ParseArray")
      [] p.state \in {"ParseObject", "ParseObjectMaybe"} ->
            parse_object(p, p.state = "ParseObject")
      [] p.state = "ParseObjectPair" -> parse_object_value(p)

\* Iterator for Parser: next
Parser_next(p0) ==
    LET p == [p0 EXCEPT !.tok = <<>>, !.stext = <<NUL>>, !.skey = FALSE] IN
    IF p.state = "Broken" THEN Ret(Error(BrokenParser), p)
    ELSE parse(IF p.handled THEN bump([p EXCEPT !.handled = FALSE]) ELSE p)

-----------------------------------------------------------------------------
(* The builder: logdrop/json.rs, Builder *)

\* Value.  Every value has every field, so that any two values compare.
Value(type) ==
    [type |-> type, b |-> FALSE, num |-> <<0, 0>>, str |-> <<>>,
     elems |-> <<>>, map |-> <<>>]

Null == Value("Null")

Bool(b) == [Value("Bool") EXCEPT !.b = b]

F64(x) == [Value("F64") EXCEPT !.num = x]

String(s) == [Value("String") EXCEPT !.str = s]

List(elems) == [Value("List") EXCEPT !.elems = elems]

\* Object(BTreeMap<String, Value>): a function from the keys to the values.
Object(map) == [Value("Object") EXCEPT !.map = map]

EmptyObject == <<>>

\* BTreeMap::insert: a value inserted under a key that is present replaces
\* the one that was there.
MapInsert(map, key, value) ==
    [k \in DOMAIN map \cup {key} |-> IF k = key THEN value ELSE map[k]]

\* Builder::new
Builder_new(src) == [parser |-> Parser_new(src), arrays |-> <<>>]

\* Option<Value> with the builder after the call; "Panic" for a panic.
BSome(v, b) == [res |-> "Some", val |-> v, b |-> b]

BNone(b) == [res |-> "None", val |-> Null, b |-> b]

BPanic(b) == [res |-> "Panic", val |-> Null, b |-> b]

\* Iterator for Builder: next, with the loops of its ArrayBegin and
\* ObjectBegin arms.
RECURSIVE Builder_next(_), build_array(_, _), build_object(_, _)
Builder_next(b0) ==
    LET Match(e, b) ==
            CASE e.type = "NullValue"    -> BSome(Null, b)
              [] e.type = "BooleanValue" -> BSome(Bool(e.b), b)
              [] e.type = "NumberValue"  -> BSome(F64(e.num), b)
              [] e.type = "StringValue"  -> BSome(String(e.str), b)
              [] e.type = "ArrayBegin"   ->
                    build_array([b EXCEPT !.arrays = Append(@, FALSE)], <<>>)
              [] e.type = "ObjectBegin"  -> build_object(b, EmptyObject)
              [] e.type = "ArrayEnd"     ->
                    IF b.arrays = <<>> THEN BPanic(b)
                    ELSE BNone([b EXCEPT !.arrays[Len(b.arrays)] = TRUE])
              [] e.type = "ObjectEnd"    -> BPanic(b)    \* unreachable!()
              [] e.type = "Error"        -> BPanic(b)    \* panic!(err)
              [] e.type = "None"         -> BNone(b)
              [] OTHER                   -> BPanic(b)
        Pulled(r) == Match(r.ev, [b0 EXCEPT !.parser = r.p])
    IN  Pulled(Parser_next(b0.parser))

\* loop { let element = match self.next() { ... }; array.push(element); }
build_array(b0, array) ==
    LET Element(e, b) ==
            IF e.res = "Panic" THEN e
            ELSE IF e.res = "Some" THEN build_array(b, Append(array, e.val))
            ELSE IF b.arrays = <<>> THEN BPanic(b)
            ELSE IF b.arrays[Len(b.arrays)]
            THEN BSome(List(array),
                       [b EXCEPT !.arrays = SubSeq(@, 1, Len(b.arrays) - 1)])
            ELSE BNone(b)
        Pulled(e) == Element(e, e.b)
    IN  Pulled(Builder_next(b0))

\* loop { let key = match self.parser.next().unwrap() { ... };
\*        let value = self.next().unwrap(); object.insert(key, value); }
build_object(b0, object) ==
    LET Member(key, v) ==
            IF v.res # "Some" THEN BPanic(v.b)
            ELSE build_object(v.b, MapInsert(object, key, v.val))
        Key(e, b) ==
            IF e.type = "ObjectEnd" THEN BSome(Object(object), b)
            ELSE IF e.type # "StringValue" THEN BPanic(b)
            ELSE Member(e.str, Builder_next(b))
        Pulled(r) == Key(r.ev, [b0 EXCEPT !.parser = r.p])
    IN  Pulled(Parser_next(b0.parser))

-----------------------------------------------------------------------------
(* Inputs of the parser *)

RECURSIVE Flatten(_)
Flatten(ts) == IF ts = <<>> THEN <<>> ELSE Head(ts) \o Flatten(Tail(ts))

SeqsUpTo(S, n) == UNION {[1..k -> S] : k \in 0..n}

\* The pieces the inputs are made of: brackets, separators, a literal and a
\* cut literal, a string and an unterminated string, the characters of the
\* number grammar.
CoreTokens ==
    { <<"[">>, <<"]">>, <<"{">>, <<"}">>, <<",">>, <<":">>, <<" ">>,
      <<"n", "u", "l", "l">>, <<"n", "u", "l">>,
      <<"\"", "k", "\"">>, <<"\"", "k">>,
      <<"0">>, <<"1">>, <<"-">>, <<".">>, <<"e">>, <<"+">> }

\* Every concatenation of at most MaxTokens pieces.
TokenInputs == {Flatten(ts) : ts \in SeqsUpTo(CoreTokens, MaxTokens)}

\* Where a value may stand: at the top level, as an array element, as an
\* object value, as an object key.
Contexts ==
    { <<>>, <<"[">>, <<"[", " ">>, <<"[", "1", ",">>,
      <<"{", "\"", "k", "\"", ":">>, <<"{", "\"", "k", "\"", " ", ":", " ">>,
      <<"{">> }

\* Number texts, literals and strings with escapes.
Lexemes ==
    { <<"0", "1">>, <<"0", "0">>, <<"-", "0", "1">>, <<"-", "0">>, <<"1", "0">>,
      <<"-">>, <<"1", ".">>, <<"1", ".", "e", "1">>, <<"-", ".", "5">>,
      <<"1", "e">>, <<"1", "E">>, <<"1", "e", "+">>, <<"1", "e", "-">>,
      <<"0", ".", "5">>, <<"1", "e", "-", "1">>, <<"4", "2", "e", "2">>,
      <<"-", "1", ".", "5", "E", "+", "1">>, <<"0", "e", "1">>,
      <<"t", "r", "u", "e">>, <<"t", "r", "u">>,
      <<"f", "a", "l", "s", "e">>, <<"f", "a", "l", "s">>,
      <<"\"", "\\", "n", "\"">>, <<"\"", "\\", "x", "\"">>, <<"\"", "\\">>,
      <<"\"", "\\", "u", "0", "0", "4", "1", "\"">>,
      <<"\"", "\\", "u", "0", "0", "6", "1", "\"">>,
      <<"\"", "\\", "u", "0", "0", "2", "f", "\"">>,
      <<"\"", "\\", "u", "0", "0", "3", "0", "k", "\"">>,
      <<"\"", "\\", "u", "0", "0", "0", "A", "\"">>,
      <<"\"", "\\", "u", "0", "0", "e", "9", "\"">>,
      <<"\"", "\\", "u", "D", "C", "0", "0", "\"">>,
      <<"\"", "\\", "u", "d", "8", "0", "0", "\"">>,
      <<"\"", "\\", "u", "0", "0", "\"">>, <<"\"", "\\", "u", "0", "0">> }

Followers == { <<>>, <<"]">>, <<"}">>, <<" ">>, <<",">> }

ContextInputs ==
    {c \o l \o f : c \in Contexts, l \in Lexemes, f \in Followers}

\* The text "k":1
Pair == <<"\"", "k", "\"", ":", "1">>

\* Containers in containers, closed, cut and closed by the wrong bracket.
Nested ==
    { <<"[", "[", "]", "]">>, <<"[", "{", "}", "]">>,
      <<"{">> \o Pair \o <<"}">>,
      <<"{", "\"", "k", "\"", ":", "[", "1", "]", "}">>,
      <<"[", "[", "1", "]", ",", "{">> \o Pair \o <<"}", "]", "0">>,
      <<"[", "{">> \o Pair \o <<",">> \o Pair \o <<"}", "]">>,
      <<"[", "[", "1">>, <<"[", "{">> \o Pair, <<"[", "[", "]">>,
      <<"{", "\"", "k", "\"", ":", "[", "1", ",">>,
      <<"[", "{", "]", "}">>, <<"{", "\"", "k", "\"", ":", "[", "}", "]">>,
      <<"[", "[", "]", "]", "]">> }

\* Elements and members with the comma missing, doubled or trailing.
Unseparated ==
    { <<"[", "1", " ", "2", "]">>, <<"[", "1", "\"", "k", "\"", "]">>,
      <<"[", "[", "]", "[", "]", "]">>, <<"[", "1", ",", ",", "2", "]">>,
      <<"[", "1", ",", "]">>,
      <<"{">> \o Pair \o <<" ">> \o Pair \o <<"}">>,
      <<"{">> \o Pair \o <<",", ",">> \o Pair \o <<"}">>,
      <<"{">> \o Pair \o <<",", "}">>,
      <<"{">> \o Pair \o <<" ", "1", "}">>,
      <<"[", "1", " ", ":", "]">>,
      <<"[", "1", ",", "2", "]">>,
      <<"{">> \o Pair \o <<",">> \o Pair \o <<"}">> }

Inputs == TokenInputs \cup ContextInputs \cup Nested \cup Unseparated

-----------------------------------------------------------------------------
(* Inputs of the builder: documents, each with the value it denotes *)

Doc(text, val) == [text |-> text, val |-> val]

Quoted(s) == <<"\"">> \o s \o <<"\"">>

NullDoc == Doc(<<"n", "u", "l", "l">>, Null)

TrueDoc == Doc(<<"t", "r", "u", "e">>, Bool(TRUE))

FalseDoc == Doc(<<"f", "a", "l", "s", "e">>, Bool(FALSE))

\* Numbers: the text and sign * (integer + fraction) * 10^exponent.
NumberDocs ==
    { Doc(<<"0">>, F64(<<0, 0>>)),
      Doc(<<"4", "2">>, F64(<<42, 0>>)),
      Doc(<<"4", "2", ".", "5">>, F64(<<425, -1>>)),
      Doc(<<"-", "4", "2", ".", "5">>, F64(<<-425, -1>>)),
      Doc(<<"1", ".", "0">>, F64(<<1, 0>>)),
      Doc(<<"4", "2", "e", "2">>, F64(<<42, 2>>)),
      Doc(<<"1", "E", "+", "1">>, F64(<<1, 1>>)),
      Doc(<<"1", "e", "-", "2">>, F64(<<1, -2>>)) }

StringDocs ==
    { Doc(Quoted(<<"s">>), String(<<"s">>)),
      Doc(Quoted(<<>>), String(<<>>)),
      Doc(Quoted(<<"a", "\\", "n", "b">>), String(<<"a", "\n", "b">>)),
      Doc(Quoted(<<"\\", "\"", "\\", "\\">>), String(<<"\"", "\\">>)),
      Doc(Quoted(<<"\\", "u", "0", "0", "6", "1", "b">>), String(<<"a", "b">>)),
      Doc(Quoted(<<"\\", "u", "0", "0", "2", "F", "\\", "u", "0", "0", "3", "0">>),
          String(<<"/", "0">>)) }

ScalarDocs == {NullDoc, TrueDoc, FalseDoc} \cup NumberDocs \cup StringDocs

\* The texts of docs with `between` written between them.
RECURSIVE Join(_, _)
Join(docs, between) ==
    IF docs = <<>> THEN <<>>
    ELSE IF Len(docs) = 1 THEN docs[1].text
    ELSE docs[1].text \o between \o Join(Tail(docs), between)

\* An array of the documents elems, with the whitespace sp wherever the
\* grammar allows whitespace inside it.
ArrDoc(elems, sp) ==
    Doc(<<"[">> \o sp \o Join(elems, sp \o <<",">> \o sp) \o sp \o <<"]">>,
        List([i \in 1..Len(elems) |-> elems[i].val]))

\* An object with the members keys[i] : elems[i] (the keys distinct).
ObjDoc(keys, elems, sp) ==
    Doc(<<"{">> \o sp
          \o Join([i \in 1..Len(elems) |->
                     Doc(Quoted(keys[i]) \o sp \o <<":">> \o sp \o elems[i].text,
                         Null)],
                  sp \o <<",">> \o sp)
          \o sp \o <<"}">>,
        Object([k \in {keys[i] : i \in 1..Len(elems)} |->
                  elems[CHOOSE i \in 1..Len(elems) : keys[i] = k].val]))

KeySeq == << <<"a">>, <<"b">>, <<"c">>, <<"k", "4">>, <<"k", "5">> >>

Spaces == { <<>>, <<" ">>, <<"\n", "\t">> }

InnerScalars ==
    { NullDoc, TrueDoc, Doc(<<"4", "2", ".", "5">>, F64(<<425, -1>>)),
      Doc(Quoted(<<"s">>), String(<<"s">>)) }

\* What the containers of a document hold: scalars, and containers of
\* scalars down to depth three.
Inner ==
    InnerScalars
      \cup {ArrDoc(<<>>, <<>>), ObjDoc(<<>>, <<>>, <<>>)}
      \cup {ArrDoc(<<d>>, <<>>) : d \in InnerScalars}
      \cup {ObjDoc(KeySeq, <<d>>, <<>>) : d \in InnerScalars}
      \cup {ArrDoc(<<ArrDoc(<<NullDoc>>, <<" ">>), ObjDoc(KeySeq, <<TrueDoc>>, <<>>)>>, <<>>),
            ObjDoc(<< <<"b">>, <<"a">> >>,
                   <<ObjDoc(KeySeq, <<ArrDoc(<<TrueDoc>>, <<>>)>>, <<" ">>), NullDoc>>,
                   <<>>)}

Min(a, b) == IF a < b THEN a ELSE b

ArrDocs == {ArrDoc(es, sp) : es \in SeqsUpTo(Inner, MaxElems), sp \in Spaces}

ObjDocs ==
    {ObjDoc(KeySeq, es, sp) :
        es \in SeqsUpTo(Inner, Min(MaxElems, Len(KeySeq))), sp \in Spaces}

\* Objects with one key written twice, plainly and as an escape: the later
\* member replaces the earlier one.
EscapedKeyDocs ==
    { Doc(<<"{", "\"", "a", "\"", ":", "1", ",",
            "\"", "\\", "u", "0", "0", "6", "1", "\"", ":", "2", "}">>,
          Object([k \in {<<"a">>} |-> F64(<<2, 0>>)])),
      Doc(<<"{", "\"", "\\", "u", "0", "0", "3", "0", "\"", ":", "1", ",",
            "\"", "0", "\"", ":", "2", "}">>,
          Object([k \in {<<"0">>} |-> F64(<<2, 0>>)])) }

\* The well-formed documents.
TopDocs == ScalarDocs \cup ArrDocs \cup ObjDocs \cup EscapedKeyDocs

\* The documents of the streams: those of build_multiple_values_streamed.
StreamDocs ==
    { ObjDoc(<<>>, <<>>, <<>>), NullDoc, TrueDoc, FalseDoc,
      Doc(<<"4", "2">>, F64(<<42, 0>>)),
      Doc(Quoted(<<"s">>), String(<<"s">>)),
      Doc(<<"4", "2", ".", "5">>, F64(<<425, -1>>)),
      ArrDoc(<<TrueDoc>>, <<>>) }

IsNumberDoc(d) == d.val.type = "F64"

\* With no separator, a number directly followed by a number is one number.
Delimited(docs, sep) ==
    \/ sep # <<>>
    \/ \A i \in 1..(Len(docs) - 1) : ~(IsNumberDoc(docs[i]) /\ IsNumberDoc(docs[i + 1]))

Separators == { <<>>, <<" ">> }

StreamText(docs, sep) == Join(docs, sep)

-----------------------------------------------------------------------------
(* The template engine: logdrop/output/files.rs, FormatParser and consume *)

EOFWhileParsingPlaceholder == "EOFWhileParsingPlaceholder"

\* ParserEvent, and None.  Every event has every field.
FEvent(type) == [type |-> type, text |-> <<>>, names |-> <<>>, err |-> ""]

Literal(text) == [FEvent("Literal") EXCEPT !.text = text]

Placeholder(names) == [FEvent("Placeholder") EXCEPT !.names = names]

FError(err) == [FEvent("Error") EXCEPT !.err = err]

FNone == FEvent("None")

\* Before the first pull.
FStart == FEvent("Start")

FRet(e, fp) == [ev |-> e, fp |-> fp]

\* FormatParser::new.  state "Broken" with err is Broken(err).
FormatParser_new(reader) == [reader |-> reader, state |-> "Undefined", err |-> ""]

\* What self.reader.next() leaves in the reader.
reader_rest(fp) == [fp EXCEPT !.reader = Tail(fp.reader)]

\* result.split('/'): the pieces between the separators, empty pieces kept.
RECURSIVE split(_, _)
split(text, sep) ==
    IF \A i \in 1..Len(text) : text[i] # sep THEN <<text>>
    ELSE LET i == CHOOSE i \in 1..Len(text) :
                     text[i] = sep /\ \A j \in 1..(i - 1) : text[j] # sep
         IN  <<SubSeq(text, 1, i - 1)>> \o split(SubSeq(text, i + 1, Len(text)), sep)

\* The loop of parse_literal with the state left Undefined at a '{'.
RECURSIVE literal_loop_keep_state(_, _)
literal_loop_keep_state(fp, result) ==
    IF fp.reader = <<>> THEN FRet(Literal(result), fp)
    ELSE IF Head(fp.reader) = "{" THEN FRet(Literal(result), reader_rest(fp))
    ELSE literal_loop_keep_state(reader_rest(fp), Append(result, Head(fp.reader)))

\* The loop of parse_literal.
RECURSIVE literal_loop(_, _)
literal_loop(fp, result) ==
    IF fp.reader = <<>> THEN FRet(Literal(result), fp)
    ELSE IF Head(fp.reader) = "{"
    THEN FRet(Literal(result), [reader_rest(fp) EXCEPT !.state = "ParsePlaceholder"])
    ELSE literal_loop(reader_rest(fp), Append(result, Head(fp.reader)))

parse_literal(fp, ch) == literal_loop(fp, <<ch>>)

\* The loop of parse_placeholder with the state left as it was at the end of
\* the input.
RECURSIVE placeholder_loop_not_broken(_, _)
placeholder_loop_not_broken(fp, result) ==
    IF fp.reader = <<>> THEN FRet(FError(EOFWhileParsingPlaceholder), fp)
    ELSE IF Head(fp.reader) = "}"
    THEN FRet(Placeholder(split(result, "/")),
              [reader_rest(fp) EXCEPT !.state = "Undefined"])
    ELSE placeholder_loop_not_broken(reader_rest(fp), Append(result, Head(fp.reader)))

\* The loop of parse_placeholder.
RECURSIVE placeholder_loop(_, _)
placeholder_loop(fp, result) ==
    IF fp.reader = <<>>
    THEN FRet(FError(EOFWhileParsingPlaceholder),
              [fp EXCEPT !.state = "Broken", !.err = EOFWhileParsingPlaceholder])
    ELSE IF Head(fp.reader) = "}"
    THEN FRet(Placeholder(split(result, "/")),
              [reader_rest(fp) EXCEPT !.state = "Undefined"])
    ELSE placeholder_loop(reader_rest(fp), Append(result, Head(fp.reader)))

parse_placeholder(fp) == placeholder_loop(fp, <<>>)

\* FormatParser::parse
FormatParser_parse(fp) ==
    IF fp.reader = <<>> THEN FRet(FNone, fp)
    ELSE IF Head(fp.reader) = "{" THEN parse_placeholder(reader_rest(fp))
    ELSE parse_literal(reader_rest(fp), Head(fp.reader))

\* Iterator for FormatParser: next
FormatParser_next(fp) ==
    CASE fp.state = "Undefined"        -> FormatParser_parse(fp)
      [] fp.state = "ParsePlaceholder" -> parse_placeholder(fp)
      [] fp.state = "Broken"           -> FRet(FError(fp.err), fp)

\* Result<String, TokenError>.  Every result has every field.
TokenResult(kind) == [kind |-> kind, text |-> <<>>, key |-> <<>>, err |-> ""]

Ok(text) == [TokenResult("Ok") EXCEPT !.text = text]

KeyNotFound(key) == [TokenResult("KeyNotFound") EXCEPT !.key = key]

TypeMismatch == TokenResult("TypeMismatch")

TokenSyntaxError(err) == [TokenResult("SyntaxError") EXCEPT !.err = err]

\* Before consume is called.
NoResult == TokenResult("Start")

\* current.find(key): the member of an object; None (the empty sequence) for
\* a missing member and for every value that is not an object.
RecordFind(current, key) ==
    IF current.type = "Object" /\ key \in DOMAIN current.map
    THEN <<current.map[key]>>
    ELSE <<>>

\* The for loop of consume, a name that cannot be looked up passed over.
RECURSIVE walk_skip_missing(_, _)
walk_skip_missing(current, keys) ==
    IF keys = <<>> THEN [ok |-> TRUE, val |-> current, key |-> <<>>]
    ELSE LET Step(found) ==
                 IF found = <<>> THEN walk_skip_missing(current, Tail(keys))
                 ELSE walk_skip_missing(found[1], Tail(keys))
         IN  Step(RecordFind(current, keys[1]))

\* for key in placeholders.iter() { match current.find(key) { ... } }
RECURSIVE walk(_, _)
walk(current, keys) ==
    IF keys = <<>> THEN [ok |-> TRUE, val |-> current, key |-> <<>>]
    ELSE LET Step(found) ==
                 IF found = <<>>
                 THEN [ok |-> FALSE, val |-> current, key |-> keys[1]]
                 ELSE walk(found[1], Tail(keys))
         IN  Step(RecordFind(current, keys[1]))

RECURSIVE NatText(_)
NatText(n) ==
    IF n < 10 THEN <<DigitSeq[n + 1]>>
    ELSE NatText(n \div 10) \o <<DigitSeq[(n % 10) + 1]>>

Zeros(n) == [i \in 1..n |-> "0"]

\* The decimal text of the number m * 10^e.
DecimalText(x) ==
    LET m == IF x[1] < 0 THEN 0 - x[1] ELSE x[1]
        e == x[2]
        d == NatText(m)
        sign == IF x[1] < 0 THEN <<"-">> ELSE <<>>
    IN  IF e >= 0 THEN sign \o d \o Zeros(e)
        ELSE IF Len(d) > 0 - e
        THEN sign \o SubSeq(d, 1, Len(d) + e) \o <<".">> \o SubSeq(d, Len(d) + e + 1, Len(d))
        ELSE sign \o <<"0", ".">> \o Zeros((0 - e) - Len(d)) \o d

\* format!("{:?}", other) for a scalar that is not a string.
DebugText(other) ==
    CASE other.type = "Null" -> <<"n", "u", "l", "l">>
      [] other.type = "Bool" ->
            IF other.b THEN <<"t", "r", "u", "e">> ELSE <<"f", "a", "l", "s", "e">>
      [] other.type = "F64"  -> DecimalText(other.num)

\* match *current with the containers rendered like the other values.
render_containers(current) ==
    CASE current.type = "String" -> Ok(current.str)
      [] current.type = "List"   -> Ok(<<"[", "]">>)
      [] current.type = "Object" -> Ok(<<"{", "}">>)
      [] OTHER                   -> Ok(DebugText(current))

\* match *current with the String arm missing: a string goes through {:?},
\* which writes it between quotes.
render_debug_string(current) ==
    CASE current.type = "String" -> Ok(<<"\"">> \o current.str \o <<"\"">>)
      [] current.type = "List"   -> TypeMismatch
      [] current.type = "Object" -> TypeMismatch
      [] OTHER                   -> Ok(DebugText(current))

\* match *current { String => ..., Array => ..., Object => ..., other => ... }
render(current) ==
    CASE current.type = "String" -> Ok(current.str)
      [] current.type = "List"   -> TypeMismatch
      [] current.type = "Object" -> TypeMismatch
      [] OTHER                   -> Ok(DebugText(current))

consume(event, payload) ==
    LET Leaf(w) == IF w.ok THEN render(w.val) ELSE KeyNotFound(w.key) IN
    CASE event.type = "Literal"     -> Ok(event.text)
      [] event.type = "Placeholder" -> Leaf(walk(payload, event.names))
      [] event.type = "Error"       -> TokenSyntaxError(event.err)

\* The field names of the placeholders, and the paths made of them.
Names == { <<"a">>, <<"b">>, <<>> }

Paths == SeqsUpTo(Names, MaxPath) \ { <<>> }

Tokens ==
    { Literal(<<"a">>), Literal(<<"/", "a", ".", "b">>),
      FError(EOFWhileParsingPlaceholder) }
      \cup { Placeholder(path) : path \in Paths }

\* An object with one member, with two members.
Obj1(k, v) == Object(MapInsert(EmptyObject, k, v))

Obj2(k1, v1, k2, v2) == Object(MapInsert(MapInsert(EmptyObject, k1, v1), k2, v2))

Scalars ==
    { Null, Bool(TRUE), Bool(FALSE), String(<<"v">>), String(<<>>),
      F64(<<42, 0>>), F64(<<-42, 0>>), F64(<<31415, -4>>) }

Containers == { List(<<>>), List(<<String(<<"v">>)>>), Object(EmptyObject) }

\* The records given to consume: objects of scalars and of containers, down
\* to depth three.
Records ==
    { Object(EmptyObject) }
      \cup { Obj1(<<"a">>, v) : v \in Scalars \cup Containers }
      \cup { Obj1(<<"a">>, Obj1(<<"b">>, v)) : v \in Scalars \cup Containers }
      \cup { Obj1(<<"a">>, Obj1(<<"b">>, Obj1(<<"a">>, v))) : v \in Scalars \cup Containers }
      \cup { Obj2(<<"a">>, String(<<"v">>), <<"b">>, Obj1(<<"a">>, Null)),
             Obj1(<<>>, String(<<"e">>)) }

\* The characters of the templates.
TemplateChars == {"a", "/", "{", "}"}

Templates == SeqsUpTo(TemplateChars, MaxTemplate)

-----------------------------------------------------------------------------
(* The file sink: logdrop/output/files.rs, FileOutput *)

\* The filesystem the sink writes to.  An object (a file) is known by its
\* device and its inode number, <<st_dev, st_ino>>; a path names an object
\* or nothing.  The paths x and y are on one filesystem, z is on another
\* one; there is no directory d.
Devs == {1, 2}

Inos == {1, 2}

Objects == Devs \X Inos

NoFile == <<>>

FilePaths == { <<"x">>, <<"y">>, <<"z">> }

PathDev(path) == IF path = <<"z">> THEN 2 ELSE 1

Range(f) == { f[x] : x \in DOMAIN f }

\* The inode numbers of a device that no path names and no handle holds.
FreeInos(d, handles, dev) ==
    { i \in Inos : <<dev, i>> \notin Range(d.dir) /\ <<dev, i>> \notin Range(handles) }

\* HashMap::new()
NoFiles == <<>>

\* FormatParser::new(..).collect() for a template that has no Error token.
RECURSIVE collect(_)
collect(fp) ==
    LET Step(r) == IF r.ev.type = "None" THEN <<>> ELSE <<r.ev>> \o collect(r.fp)
    IN  Step(FormatParser_next(fp))

FileOutput_new(path, format) ==
    [path    |-> collect(FormatParser_new(path)),
     message |-> collect(FormatParser_new(format)),
     files   |-> NoFiles]

\* What one feed did: the record, where the feed ended, the path it
\* resolved, the object stat found there, the handle it took from the cache,
\* the bytes it wrote.
Entry(outcome, payload, path) ==
    [outcome |-> outcome, payload |-> payload, path |-> path, target |-> NoFile,
     handle |-> 0, line |-> <<>>]

\* The two for loops of feed over the tokens: the texts concatenated in
\* order, or the first error.
RECURSIVE resolve(_, _, _)
resolve(tokens, payload, text) ==
    IF tokens = <<>> THEN Ok(text)
    ELSE LET Step(r) == IF r.kind = "Ok"
                        THEN resolve(Tail(tokens), payload, text \o r.text)
                        ELSE r
         IN  Step(consume(tokens[1], payload))

\* path.exists()
exists(d, path) == path \in DOMAIN d.dir /\ d.dir[path] # NoFile

\* File::create(path) succeeds when the directory of the path exists and the
\* filesystem has an inode left.
CanCreate(d, handles, path) ==
    path \in FilePaths /\ FreeInos(d, handles, PathDev(path)) # {}

\* File::create(path): a new empty file, on an inode of the filesystem's
\* choice (ino when that one is free).
File_create(d, handles, path, ino) ==
    LET free == FreeInos(d, handles, PathDev(path))
        New(i) == [d EXCEPT !.dir[path] = <<PathDev(path), i>>,
                            !.content[<<PathDev(path), i>>] = <<>>]
    IN  New(IF ino \in free THEN ino ELSE CHOOSE i \in free : TRUE)

\* libc::stat(path): <<st_dev, st_ino>>, or NoFile when it fails.
stat(d, path) == IF path \in DOMAIN d.dir THEN d.dir[path] ELSE NoFile

\* The key of the cache: self.files.entry(stat.st_ino)
entry_key(st) == st[2]

\* An entry that opens a handle for every record.
or_insert_always(w, key, obj) ==
    IF obj \in w.disk.denied THEN [w EXCEPT !.status = "panicked"]
    ELSE [w EXCEPT !.out.files = (key :> (Len(w.opens) + 1)) @@ @,
                   !.opens = Append(@, obj)]

\* entry(key).or_insert_with(|| OpenOptions::new().append(true).open(&path).unwrap()):
\* the handle of the key when there is one, and otherwise a new handle,
\* opened on the object the path names; the unwrap panics when the open is
\* refused.
or_insert_with(w, key, obj) ==
    IF key \in DOMAIN w.out.files THEN w
    ELSE IF obj \in w.disk.denied THEN [w EXCEPT !.status = "panicked"]
    ELSE [w EXCEPT !.out.files = (key :> (Len(w.opens) + 1)) @@ @,
                   !.opens = Append(@, obj)]

\* file.write_all(message): the bytes appended to the object of the handle.
\* The file takes room bytes before a write fails: a write that fails leaves
\* the bytes written before the failure in the file.
write_all(d, obj, message, room) ==
    [d EXCEPT !.content[obj] = @ \o SubSeq(message, 1, Min(room, Len(message)))]

\* Ok(()) of write_all: every byte was written.
write_ok(message, room) == room >= Len(message)

\* A feed that writes an empty line for a record whose message does not
\* resolve.
feed_write_empty_line(w, path, st, payload, room) ==
    LET handle == w.out.files[entry_key(st)]
        Done(outcome, line) ==
            [Entry(outcome, payload, path) EXCEPT !.target = st, !.handle = handle, !.line = line]
        Message(m) ==
            IF m.kind # "Ok"
            THEN [w EXCEPT !.disk = write_all(@, w.opens[handle], <<"\n">>, room),
                           !.hist = Append(@, Done("DropMessage", <<>>))]
            ELSE [w EXCEPT !.disk = write_all(@, w.opens[handle], m.text \o <<"\n">>, room),
                           !.hist = Append(@, Done(IF write_ok(m.text \o <<"\n">>, room)
                                                   THEN "Written" ELSE "WriteFailed",
                                                   m.text \o <<"\n">>))]
    IN  Message(resolve(w.out.message, payload, <<>>))

\* feed from the message loop on: the handle is in the cache.
feed_write(w, path, st, payload, room) ==
    LET handle == w.out.files[entry_key(st)]
        Done(outcome, line) ==
            [Entry(outcome, payload, path) EXCEPT !.target = st, !.handle = handle, !.line = line]
        Message(m) ==
            IF m.kind # "Ok"
            THEN [w EXCEPT !.hist = Append(@, Done("DropMessage", <<>>))]
            ELSE [w EXCEPT !.disk = write_all(@, w.opens[handle], m.text \o <<"\n">>, room),
                           !.hist = Append(@, Done(IF write_ok(m.text \o <<"\n">>, room)
                                                   THEN "Written" ELSE "WriteFailed",
                                                   m.text \o <<"\n">>))]
    IN  Message(resolve(w.out.message, payload, <<>>))

\* feed from stat on.
feed_stat(w, path, payload, room) ==
    LET Opened(o, st) ==
            IF o.status = "panicked"
            THEN [o EXCEPT !.hist = Append(@, [Entry("Panic", payload, path) EXCEPT !.target = st])]
            ELSE feed_write(o, path, st, payload, room)
        Stat(st) ==
            IF st = NoFile
            THEN [w EXCEPT !.hist = Append(@, Entry("DropStat", payload, path))]
            ELSE Opened(or_insert_with(w, entry_key(st), st), st)
    IN  Stat(stat(w.disk, path))

\* A feed that goes on with the text resolved so far when a path token fails.
feed_ignore_path_error(w, payload, ino, room) ==
    LET Created(path) ==
            IF exists(w.disk, path) THEN feed_stat(w, path, payload, room)
            ELSE IF CanCreate(w.disk, w.opens, path)
            THEN feed_stat([w EXCEPT !.disk = File_create(@, w.opens, path, ino)],
                           path, payload, room)
            ELSE [w EXCEPT !.status = "panicked", !.hist = Append(@, Entry("Panic", payload, path))]
        Path(r) == IF r.kind # "Ok" THEN Created(<<"x">>) ELSE Created(r.text)
    IN  Path(resolve(w.out.path, payload, <<>>))

\* FileOutput::feed(&mut self, payload) on the sink and filesystem w, with the
\* inode the filesystem gives to a new file and the bytes the file takes
\* before a write fails.
feed(w, payload, ino, room) ==
    LET Created(path) ==
            IF exists(w.disk, path) THEN feed_stat(w, path, payload, room)
            ELSE IF CanCreate(w.disk, w.opens, path)
            THEN feed_stat([w EXCEPT !.disk = File_create(@, w.opens, path, ino)],
                           path, payload, room)
            ELSE [w EXCEPT !.status = "panicked", !.hist = Append(@, Entry("Panic", payload, path))]
        Path(r) == IF r.kind # "Ok"
                   THEN [w EXCEPT !.hist = Append(@, Entry("DropPath", payload, <<>>))]
                   ELSE Created(r.text)
    IN  Path(resolve(w.out.path, payload, <<>>))

\* The templates of the sink, and the records fed to it: the path in a, the
\* message in b; a path below the missing directory d, no path, a path that
\* is an array, no message.
PathTemplate == <<"{", "a", "}">>

MessageTemplate == <<"{", "b", "}">>

Hello == String(<<"h">>)

SinkRecords ==
    { Obj2(<<"a">>, String(path), <<"b">>, Hello) : path \in FilePaths \cup { <<"d", "/", "x">> } }
      \cup { Obj1(<<"a">>, String(path)) : path \in FilePaths }
      \cup { Obj1(<<"b">>, Hello), Obj2(<<"a">>, List(<<>>), <<"b">>, Hello) }

\* The bytes a file may take before a write to it fails: none, a part of
\* the line of a record, all of it.
Rooms == 0..(Len(Hello.str) + 1)

\* What a file that is there before the sink starts holds.
OldLine == <<"o", "\n">>

\* The file that the sink may not open for writing, when it is there.
Protected == <<1, 2>>

\* The filesystems the sink starts on: every path names nothing or an
\* object of its device, two paths may name the same object (hard links),
\* one of the files may be closed to the sink (permission denied).
Disks ==
    { d \in { [dir     |-> dir,
               content |-> [o \in Objects |-> IF o \in Range(dir) THEN OldLine ELSE <<>>],
               denied  |-> denied] :
                 dir \in { f \in [FilePaths -> Objects \cup {NoFile}] :
                            \A path \in FilePaths :
                                f[path] # NoFile => f[path][1] = PathDev(path) },
                 denied \in { {}, {Protected} } } :
        d.denied \subseteq Range(d.dir) }

-----------------------------------------------------------------------------
(* The batch sink: logdrop/output/elasticsearch.rs, ElasticsearchOutput *)

\* enum Event { Chunk(String), Timeout }.  The epoch of a Timeout is history:
\* the number of timer resets the worker had sent when the oneshot that
\* produced it was started.
EEvent(type) == [type |-> type, chunk |-> "", epoch |-> 0]

Chunk(chunk) == [EEvent("Chunk") EXCEPT !.chunk = chunk]

Timeout(epoch) == [EEvent("Timeout") EXCEPT !.epoch = epoch]

\* payload.to_string() of the n-th record fed.
to_string(n) == "r" \o ToString(n)

Header == "{\"index\":{}}\n"

\* make_body with the items in reverse.
RECURSIVE make_body_reversed(_)
make_body_reversed(q) ==
    IF q = <<>> THEN <<>>
    ELSE make_body_reversed(Tail(q)) \o <<Header, Head(q), "\n">>

\* make_body(&queue): for every item the action line, the item, a newline.
RECURSIVE make_body(_)
make_body(q) ==
    IF q = <<>> THEN <<>>
    ELSE <<Header, Head(q), "\n">> \o make_body(Tail(q))

\* A queue that keeps its items.
clear_nothing(q) == q

\* queue.clear()
clear(q) == <<>>

\* A request task as spawned: the body it posts, and where it is.
Request(data) == [body |-> data, state |-> "pending"]

\* A send that posts every payload.
send_any(b, data) ==
    IF ~b.urlok THEN b
    ELSE [b EXCEPT !.requests = Append(@, Request(data))]

\* A send that waits for the response of its request.
send_and_wait(b, data) ==
    IF data = <<>> THEN b
    ELSE IF ~b.urlok THEN b
    ELSE [b EXCEPT !.requests = Append(@, Request(data)), !.wpc = "wait"]

\* send(base, data): nothing for an empty payload and for a url that does
\* not parse; otherwise the request is spawned as a task of its own and send
\* returns.
send(b, data) ==
    IF data = <<>> THEN b
    ELSE IF ~b.urlok THEN b
    ELSE [b EXCEPT !.requests = Append(@, Request(data))]

\* The number of timer resets the worker has sent.
Resets(fl) == Cardinality({ i \in 1..Len(fl) : fl[i].cause = "size" })

\* send(base, make_body(&queue)); queue.clear(); with the call recorded.
flush(b, cause, epoch) ==
    LET Sent(r) ==
            [r EXCEPT !.queue = clear(@),
                      !.flushes = Append(@, [cause |-> cause,
                                             items |-> b.queue,
                                             body |-> make_body(b.queue),
                                             stale |-> epoch < Resets(b.flushes),
                                             request |-> IF Len(r.requests) > Len(b.requests)
                                                         THEN Len(r.requests) ELSE 0])]
    IN  Sent(send(b, make_body(b.queue)))

\* The arm Chunk(chunk) of the worker, flushing one chunk late.
on_chunk_flush_late(b, chunk) ==
    LET Pushed(r) ==
            IF Len(r.queue) > limit
            THEN flush([r EXCEPT !.timer_rx = @ + 1], "size", Resets(r.flushes))
            ELSE r
    IN  Pushed([b EXCEPT !.queue = Append(@, chunk)])

\* The arm Chunk(chunk) of the worker, the chunk put first in the queue.
on_chunk_push_front(b, chunk) ==
    LET Pushed(r) ==
            IF Len(r.queue) >= limit
            THEN flush([r EXCEPT !.timer_rx = @ + 1], "size", Resets(r.flushes))
            ELSE r
    IN  Pushed([b EXCEPT !.queue = <<chunk>> \o @])

\* The arm Chunk(chunk) of the worker.
on_chunk(b, chunk) ==
    LET Pushed(r) ==
            IF Len(r.queue) >= limit
            THEN flush([r EXCEPT !.timer_rx = @ + 1], "size", Resets(r.flushes))
            ELSE r
    IN  Pushed([b EXCEPT !.queue = Append(@, chunk)])

\* An arm Timeout that does nothing.
on_timeout_ignore(b, epoch) == b

\* An arm Timeout that sends the first item of the queue and keeps the rest.
on_timeout_flush_first(b, epoch) ==
    LET Kept(r) == [r EXCEPT !.queue = IF b.queue = <<>> THEN <<>> ELSE Tail(b.queue)]
    IN  Kept(flush([b EXCEPT !.queue = IF @ = <<>> THEN <<>> ELSE <<Head(@)>>],
                   "timeout", epoch))

\* The arm Timeout of the worker.
on_timeout(b, epoch) == flush(b, "timeout", epoch)

\* The worker's locals and what it shares, as one record.
Batch ==
    [queue |-> queue, timer_rx |-> timer_rx, requests |-> requests,
     flushes |-> flushes, urlok |-> urlok, wpc |-> wpc]

\* The events of a kind among the events sent on tx.
Sent(type) == { i \in 1..Len(etx) : etx[i].type = type }

\* How a request task ends (elasticsearch.rs 103-131).
Outcomes == { "build_failed", "write_failed", "response_failed", "ok" }

-----------------------------------------------------------------------------
(* Specifications *)

DIdle == DInit

PIdle ==
    /\ input = <<>>
    /\ parser = Parser_new(<<>>)
    /\ ev = NoEvent
    /\ prevErr = FALSE
    /\ pevs = <<>>

BIdle ==
    /\ bdocs = <<>>
    /\ bsep = <<>>
    /\ builder = Builder_new(<<>>)
    /\ bres = "Start"
    /\ outs = <<>>

FIdle ==
    /\ tmpl = <<>>
    /\ fparser = FormatParser_new(<<>>)
    /\ fev = FStart
    /\ ftoks = <<>>
    /\ fprevErr = FALSE

CIdle ==
    /\ cevent = FStart
    /\ cpayload = Null
    /\ cres = NoResult

\* No file sink: an empty filesystem, a FileOutput without templates.
OIdle ==
    /\ disk = [dir |-> [p \in FilePaths |-> NoFile], content |-> [o \in Objects |-> <<>>],
               denied |-> {}]
    /\ fileout = [path |-> <<>>, message |-> <<>>, files |-> NoFiles]
    /\ fstatus = "run"
    /\ opens = <<>>
    /\ fhist = <<>>

\* No batch sink.
EIdle ==
    /\ erx = <<>>
    /\ etx = <<>>
    /\ timer_rx = 0
    /\ etimer = [epoch |-> 0]
    /\ queue = <<>>
    /\ wpc = "recv"
    /\ requests = <<>>
    /\ flushes = <<>>
    /\ urlok = TRUE

TIdle == FIdle /\ CIdle /\ OIdle /\ EIdle

Init == DInit /\ PIdle /\ BIdle /\ TIdle

Next ==
    \/ Ingest
    \/ DispatchRecv
    \/ DispatchSend
    \/ \E o \in Outputs : WorkerFeed(o)
    \/ \E o \in Outputs : WorkerRecvFail(o)

Spec == Init /\ [][Next]_vars

\* The dispatcher and every worker thread keep being scheduled.
FairSpec ==
    /\ Spec
    /\ WF_vars(DispatchRecv)
    /\ WF_vars(DispatchSend)
    /\ \A o \in Outputs : WF_vars(WorkerFeed(o))

\* A Parser over one of the inputs.
PInit ==
    /\ input \in Inputs
    /\ parser = Parser_new(input)
    /\ ev = NoEvent
    /\ prevErr = FALSE
    /\ pevs = <<>>

\* One pull: parser.next().  A pull after a panic does not happen.
ParserNext ==
    /\ ev.type # "Panic"
    /\ \E r \in {Parser_next(parser)} :
         /\ parser' = r.p
         /\ ev' = r.ev
         /\ pevs' = IF r.ev.type \in {"Error", "None", "Panic"}
                    THEN pevs ELSE Append(pevs, r.ev.type)
    /\ prevErr' = (prevErr \/ ev.type = "Error")
    /\ UNCHANGED <<input, dvars, bvars, tvars>>

InitParser == PInit /\ DIdle /\ BIdle /\ TIdle

SpecParser == InitParser /\ [][ParserNext]_vars

\* A Builder over one document, or over a stream of documents.
BInit ==
    /\ \/ /\ bdocs \in {<<d>> : d \in TopDocs}
          /\ bsep = <<>>
       \/ /\ bdocs \in UNION {[1..k -> StreamDocs] : k \in 2..MaxDocs}
          /\ bsep \in Separators
          /\ Delimited(bdocs, bsep)
    /\ builder = Builder_new(StreamText(bdocs, bsep))
    /\ bres = "Start"
    /\ outs = <<>>

\* One pull: builder.next().  A pull after a panic does not happen.
BuilderNext ==
    /\ bres # "Panic"
    /\ \E r \in {Builder_next(builder)} :
         /\ builder' = r.b
         /\ bres' = r.res
         /\ outs' = IF r.res = "Some" THEN Append(outs, r.val) ELSE outs
    /\ UNCHANGED <<bdocs, bsep, dvars, pvars, tvars>>

InitBuilder == BInit /\ DIdle /\ PIdle /\ TIdle

SpecBuilder == InitBuilder /\ [][BuilderNext]_vars

\* A Builder over any of the inputs of the parser, well formed or not.
InitBuilderAny ==
    /\ input \in Inputs
    /\ parser = Parser_new(<<>>)
    /\ ev = NoEvent
    /\ prevErr = FALSE
    /\ pevs = <<>>
    /\ bdocs = <<>>
    /\ bsep = <<>>
    /\ builder = Builder_new(input)
    /\ bres = "Start"
    /\ outs = <<>>
    /\ DIdle
    /\ TIdle

SpecBuilderAny == InitBuilderAny /\ [][BuilderNext]_vars

\* A FormatParser over one of the templates.
FInit ==
    /\ tmpl \in Templates
    /\ fparser = FormatParser_new(tmpl)
    /\ fev = FStart
    /\ ftoks = <<>>
    /\ fprevErr = FALSE

\* One pull: parser.next().
FormatNext ==
    /\ \E r \in {FormatParser_next(fparser)} :
         /\ fparser' = r.fp
         /\ fev' = r.ev
         /\ ftoks' = IF r.ev.type \in {"Literal", "Placeholder"}
                     THEN Append(ftoks, r.ev) ELSE ftoks
    /\ fprevErr' = (fprevErr \/ fev.type = "Error")
    /\ UNCHANGED <<tmpl, cvars, ovars, evars, dvars, pvars, bvars>>

InitFormat == FInit /\ CIdle /\ OIdle /\ EIdle /\ DIdle /\ PIdle /\ BIdle

SpecFormat == InitFormat /\ [][FormatNext]_vars

\* collect() pulls until a pull returns None: no pull is put off forever.
FairSpecFormat == SpecFormat /\ WF_vars(FormatNext)

\* A token and a record for consume.
CInit ==
    /\ cevent \in Tokens
    /\ cpayload \in Records
    /\ cres = NoResult

\* consume(&token, &payload)
Consume ==
    /\ cres = NoResult
    /\ cres' = consume(cevent, cpayload)
    /\ UNCHANGED <<cevent, cpayload, fvars, ovars, evars, dvars, pvars, bvars>>

InitConsume == CInit /\ FIdle /\ OIdle /\ EIdle /\ DIdle /\ PIdle /\ BIdle

SpecConsume == InitConsume /\ [][Consume]_vars

\* FileOutput::new(path, format) on some filesystem.
OInit ==
    /\ disk \in Disks
    /\ fileout = FileOutput_new(PathTemplate, MessageTemplate)
    /\ fstatus = "run"
    /\ opens = <<>>
    /\ fhist = <<>>

\* output.feed(&payload) in the thread of the sink (main.rs 75-81).
Feed ==
    /\ fstatus = "run"
    /\ Len(fhist) < MaxFeeds
    /\ \E payload \in SinkRecords, ino \in Inos, room \in Rooms :
         \E r \in { feed([disk |-> disk, out |-> fileout, status |-> fstatus,
                          opens |-> opens, hist |-> fhist], payload, ino, room) } :
             /\ disk' = r.disk
             /\ fileout' = r.out
             /\ fstatus' = r.status
             /\ opens' = r.opens
             /\ fhist' = r.hist
    /\ UNCHANGED <<fvars, cvars, evars, dvars, pvars, bvars>>

InitFile == OInit /\ FIdle /\ CIdle /\ EIdle /\ DIdle /\ PIdle /\ BIdle

SpecFile == InitFile /\ [][Feed]_vars

\* ElasticsearchOutput::new(host, port): both threads started, the timer
\* thread waiting for its first oneshot.
EInit ==
    /\ erx = <<>>
    /\ etx = <<>>
    /\ timer_rx = 0
    /\ etimer = [epoch |-> 0]
    /\ queue = <<>>
    /\ wpc = "recv"
    /\ requests = <<>>
    /\ flushes = <<>>
    /\ urlok \in BOOLEAN

\* feed(&payload): self.tx.send(Chunk(payload.to_string()))
BatchFeed ==
    /\ Cardinality(Sent("Chunk")) < MaxChunks
    /\ \E e \in { Chunk(to_string(Cardinality(Sent("Chunk")) + 1)) } :
         /\ erx' = Append(erx, e)
         /\ etx' = Append(etx, e)
    /\ UNCHANGED <<timer_rx, etimer, queue, wpc, requests, flushes, urlok>>
    /\ UNCHANGED <<fvars, cvars, ovars, dvars, pvars, bvars>>

\* The timer thread, the arm timeout.recv() of its select: tx.send(Timeout),
\* and the next oneshot is started.
TimerExpire ==
    /\ Cardinality(Sent("Timeout")) < MaxTimeouts
    /\ erx' = Append(erx, Timeout(etimer.epoch))
    /\ etx' = Append(etx, Timeout(etimer.epoch))
    /\ etimer' = [epoch |-> Resets(flushes)]
    /\ UNCHANGED <<timer_rx, queue, wpc, requests, flushes, urlok>>
    /\ UNCHANGED <<fvars, cvars, ovars, dvars, pvars, bvars>>

\* The timer thread, the arm timer_rx.recv() of its select: the oneshot is
\* dropped and the next one is started.
TimerReset ==
    /\ timer_rx > 0
    /\ timer_rx' = timer_rx - 1
    /\ etimer' = [epoch |-> Resets(flushes)]
    /\ UNCHANGED <<erx, etx, queue, wpc, requests, flushes, urlok>>
    /\ UNCHANGED <<fvars, cvars, ovars, dvars, pvars, bvars>>

\* The worker: rx.recv() and the arm of the event.
WorkerRecv ==
    /\ wpc = "recv"
    /\ erx # <<>>
    /\ erx' = Tail(erx)
    /\ \E r \in { IF Head(erx).type = "Chunk"
                  THEN on_chunk(Batch, Head(erx).chunk)
                  ELSE on_timeout(Batch, Head(erx).epoch) } :
         /\ queue' = r.queue
         /\ timer_rx' = r.timer_rx
         /\ requests' = r.requests
         /\ flushes' = r.flushes
         /\ wpc' = r.wpc
    /\ UNCHANGED <<etx, etimer, urlok>>
    /\ UNCHANGED <<fvars, cvars, ovars, dvars, pvars, bvars>>

\* A request task ends: it could not be built, written or answered, or the
\* response is there.  Nobody waits for it: the worker is at recv.
RequestEnd ==
    /\ \E i \in 1..Len(requests), outcome \in Outcomes :
         /\ requests[i].state = "pending"
         /\ requests' = [requests EXCEPT ![i].state = outcome]
    /\ wpc' = "recv"
    /\ UNCHANGED <<erx, etx, timer_rx, etimer, queue, flushes, urlok>>
    /\ UNCHANGED <<fvars, cvars, ovars, dvars, pvars, bvars>>

InitBatch == EInit /\ FIdle /\ CIdle /\ OIdle /\ DIdle /\ PIdle /\ BIdle

BatchNext == BatchFeed \/ TimerExpire \/ TimerReset \/ WorkerRecv \/ RequestEnd

SpecBatch == InitBatch /\ [][BatchNext]_vars

\* The timer thread and the worker are threads of their own; nothing makes
\* a record arrive or a request end.
FairSpecBatch ==
    SpecBatch /\ WF_vars(TimerExpire) /\ WF_vars(TimerReset) /\ WF_vars(WorkerRecv)

-----------------------------------------------------------------------------
(* Claims about the dispatcher (Spec, FairSpec) *)

HasMessage(p) == p.tag = "Object" /\ "message" \in DOMAIN p.map

AllHaveMessage(q) == \A i \in 1..Len(q) : HasMessage(q[i].val)

\* C1: a record without a message member is never pushed onto an output
\* channel, so none is queued on one or passed to feed(); it is dropped.
C1_NoMessageNeverPushed ==
    /\ \A o \in Outputs :
         AllHaveMessage(pushed[o]) /\ AllHaveMessage(chans[o]) /\ AllHaveMessage(fed[o])
    /\ \A i \in 1..Len(dropped) : ~HasMessage(dropped[i])

\* A record without message was dropped, records with message went through.
C1_Witness ==
    /\ \E i \in 1..Len(dropped) : dropped[i] = JObject([k \in {"timestamp"} |-> "old"])
    /\ \E i \in 1..Len(dropped) : dropped[i].tag = "String"
    /\ \A o \in Outputs : fed[o] # <<>>

\* The place of output o in the channels vector.
Idx(o) == CHOOSE i \in 1..Len(channels) : channels[i] = o

\* The number of accepted records whose for loop has passed output o.
Reached(o) ==
    IF di # 0 /\ di <= Idx(o) THEN Len(accepted) - 1 ELSE Len(accepted)

\* C2: every accepted record is pushed exactly once on every output's
\* channel as soon as the for loop has passed that output, each push is a
\* copy equal to the record, and no two pushes (on the same or on different
\* channels) are the same copy.
C2_OneIndependentCopyPerOutput ==
    /\ \A o \in Outputs :
         /\ Len(pushed[o]) = Reached(o)
         /\ \A i \in 1..Len(pushed[o]) : pushed[o][i].val = accepted[i]
    /\ \A o1, o2 \in Outputs :
         \A i \in 1..Len(pushed[o1]) : \A j \in 1..Len(pushed[o2]) :
            pushed[o1][i].id = pushed[o2][j].id => (o1 = o2 /\ i = j)

\* Two records were accepted and fanned out to every output.
C2_Witness ==
    /\ dpc = "recv"
    /\ Len(accepted) = 2
    /\ \A o \in Outputs : Len(pushed[o]) = 2

\* C3: for every output, what its worker passed to feed() followed by what
\* is still queued is what was pushed, and the records passed to feed() are
\* the accepted records, in acceptance order.
C3_PerOutputOrder ==
    \A o \in Outputs :
       /\ wstate[o] # "dead" => fed[o] \o chans[o] = pushed[o]
       /\ Len(fed[o]) <= Len(pushed[o])
       /\ \A i \in 1..Len(fed[o]) : fed[o][i] = pushed[o][i] /\ fed[o][i].val = accepted[i]

\* The outputs progress independently: the second output has been fed two
\* records while the first has been fed none.
C3_Witness ==
    /\ Len(fed["es"]) = 2
    /\ fed["file"] = <<>>
    /\ Len(chans["file"]) = 2
    /\ accepted[1] # accepted[2]

\* C4: as long as no worker thread ends, the dispatcher drains the ingestion
\* channel and finishes every fan-out, and every output that is not blocked
\* inside feed() is fed every accepted record, whatever is queued for a
\* blocked output.
C4_BlockedOutputDoesNotStall ==
    [](\A o \in Outputs : wstate[o] # "dead")
       => <>[](/\ dpc = "recv"
               /\ ingest = <<>>
               /\ \A o \in Outputs :
                    /\ Len(pushed[o]) = Len(accepted)
                    /\ wstate[o] = "run" => fed[o] = pushed[o])

\* The first output is blocked with two records queued behind it, and the
\* second output has been fed all three accepted records.
C4_Witness ==
    /\ wstate["file"] = "blocked"
    /\ Len(chans["file"]) = 2
    /\ wstate["es"] = "run"
    /\ Len(fed["es"]) = 3
    /\ dpc = "recv"

\* C5: when an output's worker thread has ended, the dispatcher is still
\* running.
C5_DispatcherSurvivesOutputFailure ==
    (\E o \in Outputs : wstate[o] = "dead") => dpc # "failed"

-----------------------------------------------------------------------------
(* Claims about the parser (SpecParser) *)

\* C6: an Error event leaves the parser Broken, and every pull after an
\* Error event returns Error(BrokenParser) and leaves it Broken.
C6_ErrorIsTerminal ==
    /\ ev.type = "Error" => parser.state = "Broken"
    /\ prevErr => (ev = Error(BrokenParser) /\ parser.state = "Broken")

\* Pulls after an error, with input left in the reader and a container open.
C6_Witness ==
    /\ prevErr
    /\ ev = Error(BrokenParser)
    /\ parser.reader # <<>>
    /\ parser.stack # <<>>

\* The text of a number without its sign.
Unsigned(t) == IF t # <<>> /\ t[1] = "-" THEN Tail(t) ELSE t

\* The integer part starts with 0 and another digit follows.
LeadingZero(t) ==
    LET u == Unsigned(t) IN Len(u) >= 2 /\ u[1] = "0" /\ u[2] \in Digit

IsSyntaxError(e) == e.type = "Error" /\ e.err # <<>> /\ e.err[1] = "SyntaxError"

\* C9: a pull that reads a number whose integer part is 0 followed by a
\* digit returns a syntax Error and leaves the parser Broken.
C9_LeadingZeroRejected ==
    LeadingZero(parser.tok) => (IsSyntaxError(ev) /\ parser.state = "Broken")

\* -01 as an array element.
C9_Witness ==
    /\ LeadingZero(parser.tok)
    /\ parser.tok[1] = "-"
    /\ parser.stack # <<>>

RECURSIVE DropDigits(_)
DropDigits(t) ==
    IF t # <<>> /\ t[1] \in Digit THEN DropDigits(Tail(t)) ELSE t

NoDigitAt(t) == t = <<>> \/ t[1] \notin Digit

\* What follows the integer part, the fraction, the sign of the exponent.
AfterInteger(t) == DropDigits(Unsigned(t))

AfterFraction(t) ==
    LET r == AfterInteger(t) IN
    IF r # <<>> /\ r[1] = "." THEN DropDigits(Tail(r)) ELSE r

AfterExponentSign(t) ==
    LET r == Tail(AfterFraction(t)) IN
    IF r # <<>> /\ r[1] \in {"+", "-"} THEN Tail(r) ELSE r

MissingAfterMinus(t) == t # <<>> /\ t[1] = "-" /\ NoDigitAt(Tail(t))

MissingAfterPoint(t) ==
    LET r == AfterInteger(t) IN
    /\ ~NoDigitAt(Unsigned(t))
    /\ r # <<>> /\ r[1] = "." /\ NoDigitAt(Tail(r))

MissingAfterExponent(t) ==
    LET r == AfterFraction(t) IN
    /\ ~NoDigitAt(Unsigned(t))
    /\ ~MissingAfterPoint(t)
    /\ r # <<>> /\ r[1] \in {"e", "E"} /\ NoDigitAt(AfterExponentSign(t))

\* C10: a pull that reads a number with no digit after its leading -, after
\* its . or after its e / E and sign returns a syntax Error and leaves the
\* parser Broken.
C10_MissingDigitRejected ==
    (\/ MissingAfterMinus(parser.tok)
     \/ (~LeadingZero(parser.tok) /\ MissingAfterPoint(parser.tok))
     \/ (~LeadingZero(parser.tok) /\ MissingAfterExponent(parser.tok)))
       => (IsSyntaxError(ev) /\ parser.state = "Broken")

\* A number ending after the sign of its exponent, as an object value.
C10_Witness ==
    /\ parser.tok = <<"1", "e", "+", "}">>
    /\ Len(parser.stack) = 1
    /\ parser.stack # <<>>
    /\ MissingAfterExponent(parser.tok)

RECURSIVE TakeDigits(_)
TakeDigits(t) ==
    IF t # <<>> /\ t[1] \in Digit THEN <<t[1]>> \o TakeDigits(Tail(t)) ELSE <<>>

RECURSIVE DecimalVal(_, _)
DecimalVal(ds, acc) ==
    IF ds = <<>> THEN acc ELSE DecimalVal(Tail(ds), acc * 10 + DigitVal(ds[1]))

HasExponent(t) ==
    /\ ~NoDigitAt(Unsigned(t))
    /\ ~LeadingZero(t)
    /\ ~MissingAfterPoint(t)
    /\ AfterFraction(t) # <<>>
    /\ AfterFraction(t)[1] \in {"e", "E"}
    /\ ~NoDigitAt(AfterExponentSign(t))

FractionDigits(t) ==
    LET r == AfterInteger(t) IN
    IF r # <<>> /\ r[1] = "." THEN TakeDigits(Tail(r)) ELSE <<>>

SignedExponent(t) ==
    LET e == DecimalVal(TakeDigits(AfterExponentSign(t)), 0) IN
    IF Tail(AfterFraction(t))[1] = "-" THEN 0 - e ELSE e

\* sign * (integer + fraction) * 10^exponent, as the exact decimal <<m, e>>.
Denoted(t) ==
    LET f == FractionDigits(t)
        m == DecimalVal(TakeDigits(Unsigned(t)), 0) * Pow10(Len(f)) + DecimalVal(f, 0)
    IN  Norm(IF t[1] = "-" THEN 0 - m ELSE m, SignedExponent(t) - Len(f))

\* C11: a number with an exponent part has the value
\* sign * (integer + fraction) * 10^exponent, the exponent being the signed
\* integer written after e / E.
C11_SignedExponent ==
    (ev.type = "NumberValue" /\ HasExponent(parser.tok))
       => ev.num = Denoted(parser.tok)

FourHex(h) == 4096 * HexVal(h[1]) + 256 * HexVal(h[2]) + 16 * HexVal(h[3]) + HexVal(h[4])

\* The text t, which runs to the end of the input, is the start of a string
\* that is not closed: it has no unescaped quote and nothing in it is
\* malformed, an escape cut short by the end of the input included.
RECURSIVE OpenString(_)
OpenString(t) ==
    IF t = <<>> THEN TRUE
    ELSE IF t[1] = "\"" THEN FALSE
    ELSE IF t[1] # "\\" THEN OpenString(Tail(t))
    ELSE IF Len(t) = 1 THEN TRUE
    ELSE IF t[2] \in Escapes THEN OpenString(SubSeq(t, 3, Len(t)))
    ELSE IF t[2] # "u" THEN FALSE
    ELSE LET h == SubSeq(t, 3, Len(t)) IN
         IF Len(h) < 4 THEN \A i \in 1..Len(h) : h[i] \in HexDigit
         ELSE /\ \A i \in 1..4 : h[i] \in HexDigit
              /\ FourHex(h) \notin 55296..57343
              /\ OpenString(SubSeq(h, 5, Len(h)))

\* C12: when the input ends inside a string the error is
\* EOFWhileParsingObjectKey if the string is an object key and
\* EOFWhileParsingString for every other string.
C12_EofInStringKind ==
    (parser.stext # <<NUL>> /\ OpenString(parser.stext))
       => ev = Error(SyntaxError(IF parser.skey
                                 THEN "EOFWhileParsingObjectKey"
                                 ELSE "EOFWhileParsingString"))

-----------------------------------------------------------------------------
(* Claims about the builder (SpecBuilder) *)

Vals(docs) == [i \in 1..Len(docs) |-> docs[i].val]

\* C7: over one well-formed document the builder yields the document's
\* value and then None.
C7_RoundTrip ==
    Len(bdocs) = 1 =>
       \/ bres = "Start" /\ outs = <<>>
       \/ bres \in {"Some", "None"} /\ outs = Vals(bdocs)

\* C8: over a stream of well-formed documents, written back to back or one
\* space apart, the builder yields their values in order and then None.
C8_StreamOfDocuments ==
    Len(bdocs) >= 2 =>
       \/ bres = "Start" /\ outs = <<>>
       \/ bres = "Some" /\ outs = SubSeq(Vals(bdocs), 1, Len(outs))
       \/ bres = "None" /\ outs = Vals(bdocs)

-----------------------------------------------------------------------------
(* Claims about the template tokenizer (SpecFormat) *)

\* Every { of the template has a } after it.
Closed(t) ==
    \A i \in 1..Len(t) : t[i] = "{" => \E j \in (i + 1)..Len(t) : t[j] = "}"

RECURSIVE JoinNames(_)
JoinNames(names) ==
    IF names = <<>> THEN <<>>
    ELSE IF Len(names) = 1 THEN names[1]
    ELSE names[1] \o <<"/">> \o JoinNames(Tail(names))

RenderToken(e) ==
    IF e.type = "Literal" THEN e.text
    ELSE <<"{">> \o JoinNames(e.names) \o <<"}">>

RECURSIVE RenderAll(_)
RenderAll(toks) ==
    IF toks = <<>> THEN <<>> ELSE RenderToken(toks[1]) \o RenderAll(Tail(toks))

NoSlash(name) == \A i \in 1..Len(name) : name[i] # "/"

\* C13: over a template in which every { has a later }, the tokenizer never
\* returns an Error, its tokens rendered back (a Literal as its text, a
\* Placeholder as { names joined by / }) are a prefix of the template at every
\* pull and the whole template once it has returned None, a Placeholder
\* has at least one name and no name contains a /.
C13_TokensRenderTemplate ==
    Closed(tmpl) =>
       /\ fev.type # "Error"
       /\ fparser.state # "Broken"
       /\ \A i \in 1..Len(ftoks) :
            ftoks[i].type = "Placeholder" =>
               /\ ftoks[i].names # <<>>
               /\ \A k \in 1..Len(ftoks[i].names) : NoSlash(ftoks[i].names[k])
       /\ Len(RenderAll(ftoks)) <= Len(tmpl)
       /\ RenderAll(ftoks) = SubSeq(tmpl, 1, Len(RenderAll(ftoks)))
       /\ fev.type = "None" => RenderAll(ftoks) = tmpl

\* A literal, a placeholder with a path of two names and a literal, then None.
C13_Witness ==
    /\ fev.type = "None"
    /\ Len(ftoks) = 3
    /\ ftoks[1].type = "Literal"
    /\ ftoks[2].type = "Placeholder"
    /\ Len(ftoks[2].names) = 2
    /\ ftoks[2].names[1] # <<>>
    /\ ftoks[3].type = "Literal"

\* The template ends inside a placeholder.
Unclosed(t) == ~Closed(t)

\* C14: over a template that ends inside a placeholder the tokenizer never
\* returns None; an Error token is Error(EOFWhileParsingPlaceholder) and
\* leaves the tokenizer Broken, and every pull after an Error token returns
\* Error(EOFWhileParsingPlaceholder) again.
C14_PlaceholderEofIsTerminal ==
    /\ Unclosed(tmpl) => fev.type # "None"
    /\ fev.type = "Error" =>
          (fev = FError(EOFWhileParsingPlaceholder) /\ fparser.state = "Broken")
    /\ fprevErr => (fev = FError(EOFWhileParsingPlaceholder) /\ fparser.state = "Broken")
    /\ (/\ Unclosed(tmpl)
        /\ fparser.reader = <<>>
        /\ fparser.state # "ParsePlaceholder"
        /\ fev.type # "Start") => fev.type = "Error"

\* A pull after the Error that followed a Literal and a Placeholder.
C14_Witness ==
    /\ fprevErr
    /\ fev = FError(EOFWhileParsingPlaceholder)
    /\ Len(ftoks) = 2
    /\ ftoks[2].type = "Placeholder"

-----------------------------------------------------------------------------
(* Claims about consume (SpecConsume) *)

\* consume has been called.
Consumed == cres # NoResult

\* v has a member named k.
HasMember(v, k) == v.type = "Object" /\ k \in DOMAIN v.map

\* The value at the end of the names ns below the record r, as a sequence of
\* one value; the empty sequence when some name of ns is not a member of the
\* value reached before it.
RECURSIVE At(_, _)
At(r, ns) ==
    IF ns = <<>> THEN <<r>>
    ELSE LET before == At(r, SubSeq(ns, 1, Len(ns) - 1))
         IN  IF before # <<>> /\ HasMember(before[1], ns[Len(ns)])
             THEN <<before[1].map[ns[Len(ns)]]>>
             ELSE <<>>

\* The names of the placeholder before the i-th are all found.
FoundBefore(i) == At(cpayload, SubSeq(cevent.names, 1, i - 1)) # <<>>

\* The i-th name is the first name of the placeholder that cannot be looked up.
FirstMissing(i) ==
    /\ i \in 1..Len(cevent.names)
    /\ FoundBefore(i)
    /\ At(cpayload, SubSeq(cevent.names, 1, i)) = <<>>

\* Every name of the placeholder is found; the value at the end of its path.
Found == cevent.type = "Placeholder" /\ At(cpayload, cevent.names) # <<>>

Leaf == At(cpayload, cevent.names)[1]

IsLeaf(leaf) == Found /\ Leaf = leaf

\* C15: resolving a Placeholder walks its names in order through nested
\* objects from the record; it fails with KeyNotFound naming the first name
\* that cannot be looked up, at any depth and also when the value reached so
\* far is not an object, and otherwise the result is that of the leaf: never
\* KeyNotFound, and the contents of a string leaf.
C15_WalkInOrder ==
    (Consumed /\ cevent.type = "Placeholder") =>
        /\ \A i \in 1..Len(cevent.names) :
               FirstMissing(i) => cres = KeyNotFound(cevent.names[i])
        /\ Found =>
               /\ cres.kind # "KeyNotFound"
               /\ Leaf.type = "String" => cres = Ok(Leaf.str)

\* A second name looked up in a value that is not an object.
C15_Witness ==
    /\ Consumed
    /\ cevent.type = "Placeholder"
    /\ Len(cevent.names) >= 2
    /\ FirstMissing(2)
    /\ At(cpayload, <<cevent.names[1]>>)[1].type = "String"
    /\ cres = KeyNotFound(cevent.names[2])

\* C16: a Placeholder whose path ends at an array or an object resolves to
\* TypeMismatch, and an Ok result of a Placeholder is never that of a
\* container.
C16_ContainerIsTypeMismatch ==
    (Consumed /\ cevent.type = "Placeholder") =>
        /\ (Found /\ Leaf.type \in {"List", "Object"}) => cres = TypeMismatch
        /\ cres.kind = "Ok" => (Found /\ Leaf.type \notin {"List", "Object"})

\* An array two names below the record.
C16_Witness ==
    /\ Consumed
    /\ Len(cevent.names) = 2
    /\ IsLeaf(List(<<String(<<"v">>)>>))
    /\ cres = TypeMismatch

\* C17: a Placeholder whose path ends at null resolves to null, at a boolean
\* to true or false, at a string to its contents without quotes; a Literal
\* resolves to its own text for every record.
C17_ScalarText ==
    Consumed =>
        /\ IsLeaf(Null) => cres = Ok(<<"n", "u", "l", "l">>)
        /\ IsLeaf(Bool(TRUE)) => cres = Ok(<<"t", "r", "u", "e">>)
        /\ IsLeaf(Bool(FALSE)) => cres = Ok(<<"f", "a", "l", "s", "e">>)
        /\ (Found /\ Leaf.type = "String") => cres = Ok(Leaf.str)
        /\ cevent.type = "Literal" => cres = Ok(cevent.text)

\* A string two names below the record, resolved.
C17_Witness ==
    /\ Consumed
    /\ Len(cevent.names) = 2
    /\ IsLeaf(String(<<"v">>))
    /\ cres = Ok(<<"v">>)

-----------------------------------------------------------------------------
(* Claims about the file sink (SpecFile) *)

\* Some token of the template does not resolve for the record.
Fails(tokens, payload) ==
    \E i \in 1..Len(tokens) : consume(tokens[i], payload).kind # "Ok"

\* The feeds so far that took a handle from the cache.
Handled == { i \in 1..Len(fhist) : fhist[i].handle # 0 }

\* C18: a feed of a record for which a token of the path template does not
\* resolve returns normally and leaves the filesystem (no file created,
\* nothing written), the handles opened and the cache as they were; the
\* thread of the sink still runs, so that the next record is fed to it.
C18_PathFailureDropsRecord ==
    [][(Len(fhist') = Len(fhist) + 1 /\ Fails(fileout.path, fhist'[Len(fhist')].payload)) =>
           /\ disk' = disk
           /\ opens' = opens
           /\ fileout' = fileout
           /\ fstatus' = "run"]_vars

\* A record without a path dropped after a record was written, and the
\* record after it written.
C18_Witness ==
    /\ Len(fhist) = 3
    /\ fhist[1].outcome = "Written"
    /\ Fails(fileout.path, fhist[2].payload)
    /\ fhist[3].outcome = "Written"

\* C19: over the feeds to one sink no object is opened twice, and two
\* records whose resolved paths are different texts that name the same object
\* go through the same handle of the cache.
C19_OneHandlePerIdentity ==
    /\ \A h1, h2 \in 1..Len(opens) : opens[h1] = opens[h2] => h1 = h2
    /\ \A i, j \in Handled :
           (fhist[i].path # fhist[j].path /\ fhist[i].target = fhist[j].target) =>
               fhist[i].handle = fhist[j].handle

\* Two records written through two hard links of one file.
C19_Witness ==
    /\ Len(fhist) >= 2
    /\ fhist[1].outcome = "Written"
    /\ fhist[2].outcome = "Written"
    /\ fhist[1].path # fhist[2].path
    /\ fhist[1].target = fhist[2].target
    /\ fhist[1].handle = fhist[2].handle
    /\ Len(opens) = 1

\* C20: the cache is keyed by device and inode: two resolved paths that name
\* different objects never share a handle, and every line is appended to the
\* object its record's resolved path names when it is written.
C20_KeyedByDeviceAndInode ==
    /\ \A i, j \in Handled :
           fhist[i].target # fhist[j].target => fhist[i].handle # fhist[j].handle
    /\ \A i \in Handled : opens[fhist[i].handle] = fhist[i].target

\* C21: no record ends the file sink: on every filesystem, also when the
\* file of the resolved path cannot be created or opened, every feed returns
\* and the thread of the sink runs on to the next record.
C21_NoRecordEndsFileSink ==
    /\ fstatus = "run"
    /\ \A i \in 1..Len(fhist) : fhist[i].outcome # "Panic"

\* The text a template resolves to for a record.
Resolved(tokens, payload) == resolve(tokens, payload, <<>>).text

\* The last n characters of a text, all of a shorter text.
Suffix(text, n) ==
    IF n > Len(text) THEN text ELSE SubSeq(text, Len(text) - n + 1, Len(text))

\* C22: when the directories of the resolved path or the file itself are not
\* there, a feed of a record whose path and message resolve creates them:
\* afterwards the path names a file, and unless the write itself failed the
\* record's line is at the end of that file.
C22_CreatesDirectoriesAndFile ==
    [][\A payload \in SinkRecords :
           ( /\ Len(fhist') = Len(fhist) + 1
             /\ fhist'[Len(fhist')].payload = payload
             /\ ~Fails(fileout.path, payload)
             /\ ~Fails(fileout.message, payload)
             /\ ~exists(disk, Resolved(fileout.path, payload)) ) =>
               /\ exists(disk', Resolved(fileout.path, payload))
               /\ fhist'[Len(fhist')].outcome # "WriteFailed" =>
                      Suffix(disk'.content[stat(disk', Resolved(fileout.path, payload))],
                             Len(Resolved(fileout.message, payload)) + 1)
                          = Resolved(fileout.message, payload) \o <<"\n">>]_vars

-----------------------------------------------------------------------------
(* Claims about the batch sink (SpecBatch, FairSpecBatch) *)

\* The items of a bulk payload: the second of every three parts.
Items(data) == [i \in 1..(Len(data) \div 3) |-> data[3 * i - 1]]

\* The worker takes a Chunk from rx.
TakesChunk == erx # <<>> /\ Head(erx).type = "Chunk" /\ erx' = Tail(erx)

\* The worker takes a Timeout from rx.
TakesTimeout == erx # <<>> /\ Head(erx).type = "Timeout" /\ erx' = Tail(erx)

\* The step records one call of send.
Flushes == Len(flushes') = Len(flushes) + 1

LastFlush == flushes[Len(flushes)]

\* C23: when a record brings the queue to the threshold the worker flushes in
\* the step that appends it: the payload built holds exactly the threshold
\* number of items, the queue with the record, and the queue is empty
\* afterwards; so between events the queue is shorter than the threshold.
C23_SizeFlushInSameStep ==
    /\ [](Len(queue) < limit)
    /\ [][(TakesChunk /\ Len(queue) + 1 = limit) =>
              /\ Flushes
              /\ LastFlush'.cause = "size"
              /\ Len(Items(LastFlush'.body)) = limit
              /\ Items(LastFlush'.body) = Append(queue, Head(erx).chunk)
              /\ queue' = <<>>]_vars

\* A size flush posted before the timer ever expired.
C23_Witness ==
    /\ Sent("Timeout") = {}
    /\ Len(flushes) = 1
    /\ flushes[1].cause = "size"
    /\ flushes[1].request = 1
    /\ Len(Items(requests[1].body)) = limit
    /\ queue = <<>>

\* The records fed so far, in order.
IsChunk(e) == e.type = "Chunk"

Fed == [i \in 1..Len(SelectSeq(etx, IsChunk)) |-> SelectSeq(etx, IsChunk)[i].chunk]

\* Fewer than threshold records were fed, all of them before the timer
\* expired for the first time.
FewThenQuiet ==
    /\ Len(Fed) \in 1..(limit - 1)
    /\ \A i \in Sent("Chunk"), j \in Sent("Timeout") : i < j

\* The calls of send with a payload that is not empty.
NonEmpty == { i \in 1..Len(flushes) : flushes[i].body # <<>> }

\* C24: when fewer than threshold records are fed and no more arrive, the
\* expiry of the timer brings exactly one flush that is not empty, with all
\* the records fed as its items; the timeouts after it post nothing.
C24_TimeoutFlushesOnce ==
    /\ [](FewThenQuiet =>
              /\ Cardinality(NonEmpty) <= 1
              /\ Len(requests) <= 1
              /\ \A i \in NonEmpty :
                     /\ flushes[i].cause = "timeout"
                     /\ Items(flushes[i].body) = Fed
                     /\ queue = <<>>)
    /\ (FewThenQuiet ~> (~FewThenQuiet \/ Cardinality(NonEmpty) = 1))

\* Two records, one fewer than the threshold, posted in one payload by the
\* first timeout, two more timeouts taken after it.
C24_Witness ==
    /\ FewThenQuiet
    /\ Len(Fed) = limit - 1
    /\ Len(Fed) >= 2
    /\ Len(requests) = 1
    /\ Items(requests[1].body) = <<to_string(1), to_string(2)>>
    /\ erx = <<>>
    /\ Cardinality(Sent("Timeout")) = 3
    /\ Len(flushes) = 3
    /\ NonEmpty = {1}
    /\ Len(requests) = 1
    /\ Items(requests[1].body) = Fed

\* C25: after a size flush has reset the timer, no flush is caused by a
\* timeout whose oneshot was started before that reset, whether the Timeout
\* was already in rx when the reset was sent or was sent after it.
C25_NoTimeoutFlushBeforePeriod ==
    \A i \in NonEmpty : flushes[i].cause = "timeout" => ~flushes[i].stale

\* C26: a flush of an empty queue does nothing: no request is ever posted
\* with an empty payload, and a Timeout taken with an empty queue leaves the
\* queue, the requests and the timer as they are.
C26_EmptyFlushIsNoOp ==
    /\ [](\A i \in 1..Len(requests) : requests[i].body # <<>>)
    /\ [][(TakesTimeout /\ queue = <<>>) =>
              UNCHANGED <<queue, requests, timer_rx, etimer, wpc>>]_vars

\* A Timeout taken with an empty queue by a sink whose url parses.
C26_Witness ==
    /\ urlok
    /\ flushes # <<>>
    /\ LastFlush.cause = "timeout"
    /\ LastFlush.body = <<>>
    /\ LastFlush.request = 0
    /\ requests = <<>>

\* The records of a request, as a set.
Posted(i) == Range(Items(requests[i].body))

\* The request has failed.
Failed(i) == requests[i].state \in Outcomes \ {"ok"}

\* C27: a batch is never sent again or put back: every flush leaves the queue
\* empty whatever becomes of the request, a record is in one posted payload
\* at most (and once in it), and the records of a flush, also those of a
\* failed request or of a url that does not parse, are never in the queue
\* again.
C27_NoRetryNoRequeue ==
    /\ [](\A i, j \in 1..Len(requests) : i # j => Posted(i) \cap Posted(j) = {})
    /\ [](\A i \in 1..Len(requests) :
              Cardinality(Posted(i)) = Len(Items(requests[i].body)))
    /\ [](\A i \in 1..Len(flushes) : Range(flushes[i].items) \cap Range(queue) = {})
    /\ [][Flushes => queue' = <<>>]_vars
    /\ [][requests' # requests /\ Len(requests') = Len(requests) =>
              UNCHANGED <<queue, erx, timer_rx>>]_vars

\* A failed request, and the records fed after it posted by a later request.
C27_Witness ==
    /\ Len(requests) = 2
    /\ Failed(1)
    /\ requests[2].state = "pending"
    /\ flushes[1].cause = "size"
    /\ Posted(1) = {"r1", "r2", "r3"}
    /\ Posted(2) = {"r4", "r5"}
    /\ queue = <<>>
    /\ erx = <<>>

\* C28: the worker never waits for a request: it is at rx.recv() between
\* events whatever the requests do, and with requests that never end every
\* event sent to it is still taken.
C28_WorkerNeverWaits ==
    /\ [](wpc = "recv")
    /\ [](erx # <<>> => ENABLED WorkerRecv)
    /\ (erx # <<>> ~> erx = <<>>)

\* Two requests pending, a record in the queue taken after both were posted.
C28_Witness ==
    /\ Len(requests) = 2
    /\ requests[1].state = "pending"
    /\ requests[2].state = "pending"
    /\ flushes[Len(flushes)].request = 2
    /\ erx = <<>>
    /\ Len(Fed) = MaxChunks

-----------------------------------------------------------------------------
(* Claims about the timestamp and the required fields (Spec) *)

\* The dispatcher accepts the record at the head of the ingestion channel.
Accepts == Len(accepted') = Len(accepted) + 1

\* C29: the dispatcher adds a timestamp only to a record that has none: a
\* record that carries a timestamp is accepted, and so delivered to the
\* outputs, with the value of that member unchanged.
C29_TimestampOnlyIfAbsent ==
    [][(Accepts /\ contains(Head(ingest), "timestamp")) =>
           find(accepted'[Len(accepted')], "timestamp") = find(Head(ingest), "timestamp")]_vars

\* The record is an object with the members message and timestamp.
HasRequired(p) == p.tag = "Object" /\ {"message", "timestamp"} \subseteq DOMAIN p.map

AllHaveRequired(q) == \A i \in 1..Len(q) : HasRequired(q[i].val)

\* C30: every record sent to, queued for or fed to an output is an object
\* with a message and a timestamp member; every payload that passes the
\* required-field check is an object, so that the dispatcher never fails at
\* unreachable!(): it only ever fails inside the for loop of the sends.
C30_OutputsGetRequiredFields ==
    /\ [](\A o \in Outputs :
              AllHaveRequired(pushed[o]) /\ AllHaveRequired(chans[o]) /\ AllHaveRequired(fed[o]))
    /\ [][(ingest # <<>> /\ ingest' = Tail(ingest) /\ contains(Head(ingest), "message")) =>
              Head(ingest).tag = "Object" /\ Accepts]_vars
    /\ [][dpc' = "failed" => dpc \in {"send", "failed"}]_vars

\* A string was dropped by the check, and a record that came with a message
\* only was fed to every output with a timestamp of the dispatcher.
C30_Witness ==
    /\ dpc = "recv"
    /\ \E i \in 1..Len(dropped) : dropped[i] = JString("message")
    /\ \A o \in Outputs :
           \E i \in 1..Len(fed[o]) :
               /\ fed[o][i].val.map["message"] = "m"
               /\ fed[o][i].val.map["timestamp"] \in Times


-----------------------------------------------------------------------------
(* Claims about what a feed of the file sink leaves behind (SpecFile) *)

\* The step is a feed, of the record payload.
Feeds(payload) ==
    /\ Len(fhist') = Len(fhist) + 1
    /\ fhist'[Len(fhist')].payload = payload

\* The line of a record.
Line(payload) == Resolved(fileout.message, payload) \o <<"\n">>

\* What a file holds after a write of line to it that failed.
Cut(old, line) == { old \o SubSeq(line, 1, k) : k \in 0..(Len(line) - 1) }

\* C36: a feed of a record whose path and message resolve appends the
\* record's line, the texts of the message tokens in order and a newline, to
\* the file the resolved path names and changes no other file and nothing
\* that was in a file; when the write fails, what the file took of the line
\* before the failure is all that is appended; either way the thread of the
\* sink runs on.
C36_OneLineToTheNamedFile ==
    [][\A payload \in SinkRecords :
           ( /\ Feeds(payload)
             /\ ~Fails(fileout.path, payload)
             /\ ~Fails(fileout.message, payload) ) =>
               /\ fstatus' = "run"
               /\ fhist'[Len(fhist')].outcome \in {"Written", "WriteFailed"}
               /\ exists(disk', Resolved(fileout.path, payload))
               /\ \A o \in Objects :
                      IF o # stat(disk', Resolved(fileout.path, payload))
                      THEN disk'.content[o] = disk.content[o]
                      ELSE IF fhist'[Len(fhist')].outcome = "Written"
                      THEN disk'.content[o] = disk.content[o] \o Line(payload)
                      ELSE disk'.content[o] \in Cut(disk.content[o], Line(payload))]_vars

\* The step is a feed that ended at the message template.
DropsAtMessage ==
    /\ Len(fhist') = Len(fhist) + 1
    /\ fhist'[Len(fhist')].outcome = "DropMessage"

\* C37 as claimed: a feed of a record that is dropped because a token of
\* the message template does not resolve leaves the filesystem, the handles
\* opened and the cache as they were.
C37_MessageFailureLeavesNoTrace ==
    [][DropsAtMessage =>
           /\ disk' = disk
           /\ opens' = opens
           /\ fileout' = fileout]_vars

\* C37: a feed of a record that is dropped because a token of the message
\* template does not resolve writes nothing and changes no file that was
\* there, and the thread of the sink runs on; the file of the resolved path
\* is there afterwards, empty when the feed created it, and its handle is in
\* the cache under the key of the file (its inode number), opened by this
\* feed when the key was not there; the other entries of the cache are as
\* they were.
C37_MessageFailureWritesNothing ==
    [][DropsAtMessage =>
           /\ fstatus' = "run"
           /\ fhist'[Len(fhist')].line = <<>>
           /\ \A o \in Objects : disk'.content[o] = disk.content[o]
           /\ \A path \in FilePaths :
                  (exists(disk, path) \/ path # fhist'[Len(fhist')].path) =>
                      disk'.dir[path] = disk.dir[path]
           /\ exists(disk', fhist'[Len(fhist')].path)
           /\ stat(disk', fhist'[Len(fhist')].path) = fhist'[Len(fhist')].target
           /\ DOMAIN fileout'.files =
                  DOMAIN fileout.files \cup {entry_key(fhist'[Len(fhist')].target)}
           /\ \A key \in DOMAIN fileout.files :
                  fileout'.files[key] = fileout.files[key]
           /\ fileout'.path = fileout.path
           /\ fileout'.message = fileout.message
           /\ opens' = IF entry_key(fhist'[Len(fhist')].target) \in DOMAIN fileout.files
                        THEN opens
                        ELSE Append(opens, fhist'[Len(fhist')].target)]_vars

\* The first record fed had no message: its file was created, is empty, and
\* its handle is the one handle opened.
C37_Witness ==
    /\ Len(fhist) = 1
    /\ fhist[1].outcome = "DropMessage"
    /\ Len(opens) = 1
    /\ opens[1] = fhist[1].target
    /\ disk.content[fhist[1].target] = <<>>
    /\ fhist[1].handle = 1

-----------------------------------------------------------------------------
(* Claims about the construction of the file sink (FairSpecFormat) *)

\* C34: building the token list of a template ends for every template, also
\* for one that ends inside a placeholder: the pulls of collect() reach the
\* None that ends the list, and an Error token is the last of its list, the
\* pull after it returns None.
C34_CollectTerminates ==
    /\ [](fprevErr => fev.type = "None")
    /\ <>(fev.type = "None")

-----------------------------------------------------------------------------
(* Claims about the containers of the parser (SpecParser) *)

\* The parser as the next pull finds it at its first significant character.
AtNext(p) == whitespaces(IF p.handled THEN bump([p EXCEPT !.handled = FALSE]) ELSE p)

\* The bracket that closes the container the parser is in.
Closer(p) == IF p.state \in {"ParseArray", "ParseArrayMaybe"} THEN "]" ELSE "}"

\* C31: just after an array element or an object value the only accepted
\* next character other than whitespace is a comma or the matching close
\* bracket: a pull that finds anything else returns a syntax Error event and
\* leaves the parser Broken.
C31_CommaBetweenElements ==
    [][(/\ parser.state \in {"ParseArrayMaybe", "ParseObjectMaybe"}
        /\ ~eof(AtNext(parser))
        /\ char(AtNext(parser)) \notin {",", Closer(parser)})
       => (IsSyntaxError(ev') /\ parser'.state = "Broken")]_vars

\* The containers a history of events leaves open, innermost last; an end
\* event that does not close the innermost open container leaves "Stray".
OpenStep(o, e) ==
    CASE e = "ArrayBegin" -> Append(o, "Array")
      [] e = "ObjectBegin" -> Append(o, "Object")
      [] e = "ArrayEnd" ->
            IF o # <<>> /\ o[Len(o)] = "Array"
            THEN SubSeq(o, 1, Len(o) - 1) ELSE Append(o, "Stray")
      [] e = "ObjectEnd" ->
            IF o # <<>> /\ o[Len(o)] = "Object"
            THEN SubSeq(o, 1, Len(o) - 1) ELSE Append(o, "Stray")
      [] OTHER -> o

RECURSIVE Open(_)
Open(h) ==
    IF h = <<>> THEN <<>>
    ELSE OpenStep(Open(SubSeq(h, 1, Len(h) - 1)), h[Len(h)])

\* The kind of container a state of the parser is inside.
KindOf(state) ==
    CASE state \in {"ParseArray", "ParseArrayMaybe"} -> "Array"
      [] state \in {"ParseObject", "ParseObjectMaybe", "ParseObjectPair"} -> "Object"
      [] OTHER -> "None"

\* C32: in every state of the parser that is not Broken the stack has one
\* entry per open container, the state is Undefined exactly when the stack is
\* empty, every end event closed the innermost open container of its kind,
\* no pop found the stack empty, and after the event that closes a top-level
\* document the state is Undefined.
C32_StackMatchesOpenContainers ==
    /\ ev.type # "Panic"
    /\ parser.state # "Broken" =>
        /\ Len(parser.stack) = Len(Open(pevs))
        /\ "Stray" \notin Range(Open(pevs))
        /\ parser.state = "Undefined" <=> parser.stack = <<>>
        /\ Open(pevs) # <<>> =>
               KindOf(parser.state) = Open(pevs)[Len(Open(pevs))]
        /\ (ev.type \in {"ArrayEnd", "ObjectEnd"} /\ Open(pevs) = <<>>)
               => parser.state = "Undefined"
        /\ \A i \in 2..Len(parser.stack) :
               KindOf(parser.stack[i]) = Open(pevs)[i - 1]

\* An array that holds an array and an object has just been closed.
C32_Witness ==
    /\ ev.type = "ArrayEnd"
    /\ parser.state = "Undefined"
    /\ Len(pevs) >= 8
    /\ \E i \in DOMAIN pevs : pevs[i] = "ObjectEnd"
    /\ parser.reader # <<>>

\* C33: a pull returns None only in state Undefined with no container open,
\* and a pull that is at the end of the input while a container is open
\* returns an Error event and leaves the parser Broken.
C33_EofInContainerIsError ==
    /\ [](ev.type = "None" =>
            /\ parser.state = "Undefined"
            /\ parser.stack = <<>>
            /\ Open(pevs) = <<>>)
    /\ [][(/\ Open(pevs) # <<>>
           /\ parser.state # "Broken"
           /\ eof(parser'))
          => (IsSyntaxError(ev') /\ parser'.state = "Broken")]_vars

\* The input ended right after a number that is the value of a member of an
\* object inside an array.
C33_Witness ==
    /\ Open(pevs) = <<"Array", "Object">>
    /\ IsSyntaxError(ev)
    /\ ev.err[2] = "EOFWhileParsingObjectValue"
    /\ parser.tok # <<>>
    /\ eof(parser)

-----------------------------------------------------------------------------
(* Claims about the payloads of the batch sink (SpecBatch, FairSpecBatch) *)

\* The pieces of the payload of the items q[1], ..., q[n], written out.
Lines(q) ==
    [k \in 1..(3 * Len(q)) |->
        CASE k % 3 = 1 -> "{\"index\":{}}\n"
          [] k % 3 = 2 -> q[(k + 1) \div 3]
          [] OTHER -> "\n"]

\* s is t[from + 1], ..., t[from + Len(s)].
IsSliceAt(s, t, from) ==
    /\ from + Len(s) <= Len(t)
    /\ \A i \in 1..Len(s) : s[i] = t[from + i]

\* C35: the payload built for a queue is, for every item in queue order, the
\* header line, the item and a newline, and the queue holds records in the
\* order in which they were fed.
C35_BodyIsHeaderItemNewline ==
    /\ \A i \in 1..Len(flushes) :
         /\ flushes[i].body = Lines(flushes[i].items)
         /\ \E from \in 0..Len(Fed) : IsSliceAt(flushes[i].items, Fed, from)
    /\ \A i \in 1..Len(requests) :
         \E j \in 1..Len(flushes) : requests[i].body = Lines(flushes[j].items)
    /\ \E from \in 0..Len(Fed) : IsSliceAt(queue, Fed, from)

\* A posted payload of three records, the second to the fourth fed.
C35_Witness ==
    /\ Len(requests) = 2
    /\ requests[2].body =
          <<Header, to_string(2), "\n", Header, to_string(3), "\n",
            Header, to_string(4), "\n">>
    /\ flushes[1].cause = "timeout"
    /\ flushes[2].cause = "size"

\* The items of the calls of send so far, one call after the other.
RECURSIVE AllItems(_)
AllItems(fl) ==
    IF fl = <<>> THEN <<>>
    ELSE AllItems(SubSeq(fl, 1, Len(fl) - 1)) \o Items(fl[Len(fl)].body)

\* The records the worker has taken from rx so far, in order.
Received ==
    SubSeq(Fed, 1, Len(Fed) - Len(SelectSeq(erx, IsChunk)))

\* C38: the items of the payloads flushed so far, one flush after the other,
\* followed by the queue, are the records the worker has received so far, in
\* the order it received them.
C38_FlushedThenQueuedIsReceived ==
    AllItems(flushes) \o queue = Received

\* A timeout flush of two records, a timeout flush of one, and two records
\* in the queue.
C38_Witness ==
    /\ Len(flushes) >= 2
    /\ flushes[1].cause = "timeout"
    /\ Len(flushes[1].items) = 2
    /\ \E i \in 2..Len(flushes) :
         flushes[i].cause = "timeout" /\ Len(flushes[i].items) = 1
    /\ queue = <<to_string(4), to_string(5)>>
    /\ erx = <<>>

\* The n-th record has been fed.
IsFed(n) == n <= Len(Fed)

\* The n-th record is an item of a payload that was flushed.
InFlush(n) ==
    \E i \in 1..Len(flushes) : to_string(n) \in Range(Items(flushes[i].body))

\* The timer has an expiry left.
TimerRuns == Cardinality(Sent("Timeout")) < MaxTimeouts

\* C39: with the timer thread and the worker scheduled fairly, every record
\* fed to the sink while the timer runs is eventually an item of a flushed
\* payload, whether or not the queue reaches the threshold.
C39_EveryRecordIsFlushed ==
    \A n \in 1..MaxChunks : (IsFed(n) /\ TimerRuns) ~> InFlush(n)

\* The timer was reset by a size flush, and the two records fed after it
\* left in one timeout flush.
C39_Witness ==
    /\ Len(flushes) >= 2
    /\ flushes[1].cause = "size"
    /\ timer_rx = 0
    /\ \E i \in 2..Len(flushes) :
         /\ flushes[i].cause = "timeout"
         /\ flushes[i].items = <<to_string(limit + 1), to_string(limit + 2)>>
    /\ Len(Fed) = limit + 2

-----------------------------------------------------------------------------
(* Claims about the builder over any input (SpecBuilderAny) *)

\* The types of the events a parser returns from p on, up to the first
\* None, Error or panic.
RECURSIVE Emitted(_)
Emitted(p) ==
    LET Pulled(r) ==
            IF r.ev.type \in {"None", "Error", "Panic"} THEN <<>>
            ELSE <<r.ev.type>> \o Emitted(r.p)
    IN  Pulled(Parser_next(p))

\* The frame of a container after one more value in it: an array stays an
\* array, an object that waits for a key takes a string and waits for the
\* value, an object that waits for a value waits for a key again.
AfterValue(frames, e) ==
    IF frames = <<>> THEN frames
    ELSE LET top == frames[Len(frames)]
             rest == SubSeq(frames, 1, Len(frames) - 1)
         IN  CASE top = "Array" -> frames
               [] top = "Key" -> IF e = "StringValue"
                                 THEN Append(rest, "Value")
                                 ELSE Append(frames, "Bad")
               [] top = "Value" -> Append(rest, "Key")
               [] OTHER -> frames

\* The open containers after an event, innermost last, or "Bad" at the end
\* when the event may not stand where it stands.
FrameStep(frames, e) ==
    CASE e = "ArrayBegin" -> Append(AfterValue(frames, e), "Array")
      [] e = "ObjectBegin" -> Append(AfterValue(frames, e), "Key")
      [] e = "ArrayEnd" ->
            IF frames # <<>> /\ frames[Len(frames)] = "Array"
            THEN SubSeq(frames, 1, Len(frames) - 1) ELSE Append(frames, "Bad")
      [] e = "ObjectEnd" ->
            IF frames # <<>> /\ frames[Len(frames)] = "Key"
            THEN SubSeq(frames, 1, Len(frames) - 1) ELSE Append(frames, "Bad")
      [] OTHER -> AfterValue(frames, e)

RECURSIVE Frames(_)
Frames(h) ==
    IF h = <<>> THEN <<>>
    ELSE FrameStep(Frames(SubSeq(h, 1, Len(h) - 1)), h[Len(h)])

\* C40: for every input the events of the parser that are no Error are well
\* nested, and in an object a key, a StringValue, and one value alternate;
\* the Builder panics only on an Error event of its parser, returns None
\* only at the end of the input with no array open, and yields a value only
\* when every container of the value is closed.
C40_BuilderAbortsOnlyOnError ==
    /\ "Bad" \notin Range(Frames(Emitted(Parser_new(input))))
    /\ bres = "Panic" => builder.parser.state = "Broken"
    /\ bres = "None" =>
          /\ builder.parser.state = "Undefined"
          /\ eof(builder.parser)
          /\ builder.arrays = <<>>
    /\ bres = "Some" =>
          /\ builder.parser.state = "Undefined"
          /\ builder.parser.stack = <<>>
          /\ builder.arrays = <<>>
          /\ outs # <<>>

\* The value of an array that holds an array and an object, with input left.
C40_Witness ==
    /\ bres = "Some"
    /\ Len(outs) = 1
    /\ outs[1].type = "List"
    /\ Len(outs[1].elems) = 2
    /\ outs[1].elems[1] = List(<<F64(<<1, 0>>)>>)
    /\ outs[1].elems[2].type = "Object"
    /\ builder.parser.reader # <<>>

====
